---- MODULE Spec2Model ----
(***************************************************************************)
(* WeKnora RAG pipeline engine: the stage dispatcher and its plugins       *)
(* (load_history, into_chat_message), the pipeline definitions, input      *)
(* validation, and the Ollama streaming chat producer/consumer.            *)
(***************************************************************************)
EXTENDS Integers, Sequences, FiniteSets, TLC

(***************************************************************************)
(* Bounds of the model                                                     *)
(***************************************************************************)
MaxQueryLen == 2
MaxMsgs == 4
PipeMsgs == 1
MaxTime == 2
MaxRoundsBound == 2
MaxResults == 2
MaxResponses == 2
MaxFaqItems == 2
MaxTopK == 2
MaxFromItems == 2
MaxCalls == 3

(***************************************************************************)
(* Generic helpers                                                         *)
(***************************************************************************)
SeqsUpTo(S, n) == UNION {[1..k -> S] : k \in 0..n}

Min(a, b) == IF a < b THEN a ELSE b

Reverse(s) == [i \in 1..Len(s) |-> s[Len(s) + 1 - i]]

IsPrefix(s, t) == Len(s) <= Len(t) /\ \A i \in 1..Len(s) : s[i] = t[i]

Count(s, x) == Cardinality({i \in 1..Len(s) : s[i] = x})

(***************************************************************************)
(* Pipeline stage identifiers and pipeline definitions                     *)
(***************************************************************************)
LOAD_HISTORY == "load_history"
REWRITE_QUERY == "rewrite_query"
CHUNK_SEARCH == "chunk_search"
CHUNK_SEARCH_PARALLEL == "chunk_search_parallel"
ENTITY_SEARCH == "entity_search"
CHUNK_RERANK == "chunk_rerank"
CHUNK_MERGE == "chunk_merge"
DATA_ANALYSIS == "data_analysis"
INTO_CHAT_MESSAGE == "into_chat_message"
CHAT_COMPLETION == "chat_completion"
CHAT_COMPLETION_STREAM == "chat_completion_stream"
STREAM_FILTER == "stream_filter"
FILTER_TOP_K == "filter_top_k"

PipelineNames == {"chat", "chat_stream", "chat_history_stream", "rag", "rag_stream"}

Pipline ==
    [name \in PipelineNames |->
        CASE name = "chat" -> <<CHAT_COMPLETION>>
          [] name = "chat_stream" -> <<CHAT_COMPLETION_STREAM, STREAM_FILTER>>
          [] name = "chat_history_stream" ->
                <<LOAD_HISTORY, CHAT_COMPLETION_STREAM, STREAM_FILTER>>
          [] name = "rag" ->
                <<CHUNK_SEARCH, CHUNK_RERANK, CHUNK_MERGE, INTO_CHAT_MESSAGE,
                  CHAT_COMPLETION>>
          [] name = "rag_stream" ->
                <<REWRITE_QUERY, CHUNK_SEARCH_PARALLEL, CHUNK_RERANK, CHUNK_MERGE,
                  FILTER_TOP_K, DATA_ANALYSIS, INTO_CHAT_MESSAGE,
                  CHAT_COMPLETION_STREAM, STREAM_FILTER>>]

(***************************************************************************)
(* Input validation (utils.ValidateInput).  A query is a sequence of text  *)
(* atoms; each atom stands for the bytes written next to it.               *)
(***************************************************************************)
CtrlChar == "\\x01"      \* a control character below 32
TabChar == "\\t"         \* rune 9
SpaceChar == " "         \* rune 32
LetterChar == "a"        \* rune 97
BadByte == "\\x80"       \* a lone continuation byte: invalid UTF-8
XssAtom == "javascript:" \* text matched by one of xssPatterns

Atoms == {CtrlChar, TabChar, SpaceChar, LetterChar, BadByte, XssAtom}

\* first rune produced by ranging over the atom (an invalid byte decodes to U+FFFD)
RuneOf(a) ==
    CASE a = CtrlChar -> 1
      [] a = TabChar -> 9
      [] a = SpaceChar -> 32
      [] a = LetterChar -> 97
      [] a = BadByte -> 65533
      [] a = XssAtom -> 106

IsControlRune(r) == r < 32 /\ r # 9 /\ r # 10 /\ r # 13

ValidUTF8(input) == \A i \in 1..Len(input) : input[i] # BadByte

MatchesXss(input) == \E i \in 1..Len(input) : input[i] = XssAtom

IsSpaceAtom(a) == a \in {TabChar, SpaceChar}

RECURSIVE TrimLeft(_)
TrimLeft(s) == IF s # <<>> /\ IsSpaceAtom(Head(s)) THEN TrimLeft(Tail(s)) ELSE s

TrimSpace(s) == Reverse(TrimLeft(Reverse(TrimLeft(s))))

\* ValidateInput without the scan over xssPatterns
ValidateInput_noXssCheck(input) ==
    IF input = <<>> THEN [safe |-> <<>>, ok |-> TRUE]
    ELSE IF \E i \in 1..Len(input) : IsControlRune(RuneOf(input[i]))
        THEN [safe |-> <<>>, ok |-> FALSE]
    ELSE IF ~ValidUTF8(input) THEN [safe |-> <<>>, ok |-> FALSE]
    ELSE [safe |-> TrimSpace(input), ok |-> TRUE]

\* returns the pair (sanitized text, isValid)
ValidateInput(input) ==
    IF input = <<>> THEN [safe |-> <<>>, ok |-> TRUE]
    ELSE IF \E i \in 1..Len(input) : IsControlRune(RuneOf(input[i]))
        THEN [safe |-> <<>>, ok |-> FALSE]
    ELSE IF ~ValidUTF8(input) THEN [safe |-> <<>>, ok |-> FALSE]
    ELSE IF MatchesXss(input) THEN [safe |-> <<>>, ok |-> FALSE]
    ELSE [safe |-> TrimSpace(input), ok |-> TRUE]

(***************************************************************************)
(* Messages kept by the message service, and dialogue history turns        *)
(***************************************************************************)
RequestIDs == {"r1", "r2"}

ThinkBlock == "<think>t</think>" \* one block matched by regThink
AnswerText == "ans"
QueryText == "q"

\* a user message carries its creation time; the creation time of an
\* assistant message is never read by the plugin and is left at 0
UserMessages ==
    [RequestID : RequestIDs, Role : {"user"}, Content : {<<QueryText>>},
     CreatedAt : 1..MaxTime]

AssistantMessages ==
    [RequestID : RequestIDs, Role : {"assistant"},
     Content : {<<ThinkBlock>>, <<ThinkBlock, AnswerText>>}, CreatedAt : {0}]

Messages == UserMessages \cup AssistantMessages

\* regThink.ReplaceAllString(content, "")
StripThink(content) == SelectSeq(content, LAMBDA t : t # ThinkBlock)

ZeroHistory == [Query |-> <<>>, Answer |-> <<>>, CreateAt |-> 0]

\* one iteration of the grouping loop
PutMessage(historyMap, message) ==
    LET rid == message.RequestID
        h == IF rid \in DOMAIN historyMap THEN historyMap[rid] ELSE ZeroHistory
        h2 == IF message.Role = "user"
              THEN [h EXCEPT !.Query = message.Content, !.CreateAt = message.CreatedAt]
              ELSE [h EXCEPT !.Answer = StripThink(message.Content)]
    IN [k \in DOMAIN historyMap \cup {rid} |-> IF k = rid THEN h2 ELSE historyMap[k]]

RECURSIVE GroupByRequest(_, _)
GroupByRequest(history, historyMap) ==
    IF history = <<>> THEN historyMap
    ELSE GroupByRequest(Tail(history), PutMessage(historyMap, Head(history)))

EmptyMap == [k \in {} |-> ZeroHistory]

\* every turn passes the filter
CompleteKeys_all(historyMap) == DOMAIN historyMap

\* keys of the turns that pass the completeness filter
CompleteKeys(historyMap) ==
    {k \in DOMAIN historyMap : historyMap[k].Answer # <<>> /\ historyMap[k].Query # <<>>}

Perms(S) == {f \in [1..Cardinality(S) -> S] : \A i, j \in DOMAIN f : f[i] = f[j] => i = j}

\* sort.Slice with less = CreateAt.After: newest first.  The map is iterated
\* in random order and the sort is not stable, so turns of equal time may
\* come out in any order.
SortedNewestFirst(historyMap, keys) ==
    {[i \in DOMAIN p |-> historyMap[p[i]]] : p \in
        {q \in Perms(keys) :
            \A i \in 1..(Len(q) - 1) :
                historyMap[q[i]].CreateAt >= historyMap[q[i + 1]].CreateAt}}

\* the list is never cut
LimitRounds_noLimit(historyList, maxRounds) == historyList

\* if len(historyList) > maxRounds { historyList = historyList[:maxRounds] }
LimitRounds(historyList, maxRounds) ==
    IF Len(historyList) > maxRounds THEN SubSeq(historyList, 1, maxRounds)
    ELSE historyList

\* the list stays newest first
ToChronological_keepNewestFirst(historyList) == historyList

\* slices.Reverse: back to chronological order
ToChronological(historyList) == Reverse(historyList)

\* the set of history lists the plugin may produce from the fetched messages
LoadedHistories(history, maxRounds) ==
    LET historyMap == GroupByRequest(history, EmptyMap)
    IN {ToChronological(LimitRounds(l, maxRounds)) :
            l \in SortedNewestFirst(historyMap, CompleteKeys(historyMap))}

\* maxRounds := config default, overridden by a positive request value
EffectiveMaxRounds(cfg, requested) == IF requested > 0 THEN requested ELSE cfg

\* limit handed to GetRecentMessagesBySession
FetchLimit(maxRounds) == maxRounds * 2 + 10

(***************************************************************************)
(* Search results and prompt assembly helpers                              *)
(***************************************************************************)
ChunkTypeFAQ == "faq"
ChunkTypeText == "text"

\* scores and thresholds in hundredths
ScoreLevels == {40, 90}
ThresholdLevels == {50, 90}

\* the context template: literal text around the placeholders
ContextTemplate == <<"{{contexts}}", "Q:", "{{query}}", "{{current_time}}">>

IsFAQ(r) == r.ChunkType = ChunkTypeFAQ

\* lines 44-66: faqResults, docResults, hasHighConfidenceFAQ
FaqResults(cm) ==
    IF cm.FAQPriorityEnabled THEN SelectSeq(cm.MergeResult, IsFAQ) ELSE <<>>

DocResults(cm) ==
    IF cm.FAQPriorityEnabled
    THEN SelectSeq(cm.MergeResult, LAMBDA r : ~IsFAQ(r)) ELSE <<>>

\* a score equal to the threshold does not count
HasHighConfidenceFAQ_strictlyAbove(cm) ==
    /\ cm.FAQPriorityEnabled
    /\ \E i \in 1..Len(cm.MergeResult) :
          /\ IsFAQ(cm.MergeResult[i])
          /\ cm.MergeResult[i].Score > cm.FAQDirectAnswerThreshold

HasHighConfidenceFAQ(cm) ==
    /\ cm.FAQPriorityEnabled
    /\ \E i \in 1..Len(cm.MergeResult) :
          /\ IsFAQ(cm.MergeResult[i])
          /\ cm.MergeResult[i].Score >= cm.FAQDirectAnswerThreshold

\* the reference-documents section is written before the FAQ section
BuildContexts_docsFirst(cm) ==
    LET faq == FaqResults(cm)
        doc == DocResults(cm)
    IN IF cm.FAQPriorityEnabled /\ Len(faq) > 0
       THEN (IF Len(doc) > 0
             THEN <<[label |-> "DOC-header", n |-> 0, id |-> ""]>>
                  \o [i \in 1..Len(doc) |->
                        [label |-> "DOC", n |-> i, id |-> doc[i].ID]]
             ELSE <<>>)
            \o <<[label |-> "FAQ-header", n |-> 0, id |-> ""]>>
            \o [i \in 1..Len(faq) |->
                  [label |-> IF HasHighConfidenceFAQ(cm) /\ i = 1
                             THEN "FAQ-exact" ELSE "FAQ",
                   n |-> i, id |-> faq[i].ID]]
       ELSE [i \in 1..Len(cm.MergeResult) |->
               [label |-> "flat", n |-> i, id |-> cm.MergeResult[i].ID]]

\* lines 80-116: the text substituted for {{contexts}}, one element per line
BuildContexts(cm) ==
    LET faq == FaqResults(cm)
        doc == DocResults(cm)
    IN IF cm.FAQPriorityEnabled /\ Len(faq) > 0
       THEN <<[label |-> "FAQ-header", n |-> 0, id |-> ""]>>
            \o [i \in 1..Len(faq) |->
                  [label |-> IF HasHighConfidenceFAQ(cm) /\ i = 1
                             THEN "FAQ-exact" ELSE "FAQ",
                   n |-> i, id |-> faq[i].ID]]
            \o (IF Len(doc) > 0
                THEN <<[label |-> "DOC-header", n |-> 0, id |-> ""]>>
                     \o [i \in 1..Len(doc) |->
                           [label |-> "DOC", n |-> i, id |-> doc[i].ID]]
                ELSE <<>>)
       ELSE [i \in 1..Len(cm.MergeResult) |->
               [label |-> "flat", n |-> i, id |-> cm.MergeResult[i].ID]]

\* lines 118-123: strings.ReplaceAll of each placeholder
RenderTemplate(template, safeQuery, contexts) ==
    [i \in 1..Len(template) |->
        CASE template[i] = "{{query}}" -> [part |-> "query", text |-> safeQuery]
          [] template[i] = "{{contexts}}" -> [part |-> "contexts", text |-> contexts]
          [] template[i] = "{{current_time}}" -> [part |-> "time", text |-> <<>>]
          [] OTHER -> [part |-> template[i], text |-> <<>>]]

(***************************************************************************)
(* State                                                                   *)
(***************************************************************************)
VARIABLES
    pipeline,        \* name of the pipeline handed to Trigger
    chatManage,      \* the execution context of the request
    cfgMaxRounds,    \* config.Conversation.MaxRounds
    sessionMsgCount, \* number of messages stored for the session
    fetched,         \* messages returned by GetRecentMessagesBySession
    fetchFailed,     \* GetRecentMessagesBySession returned an error
    stack,           \* indices of the stages whose OnEvent is active
    invoked,         \* stages invoked so far, in order
    nextCalled,      \* stages that have called next, in order
    phase,           \* "ready", "running", "unwinding", "done"
    retval,          \* value being returned up the chain
    returned,        \* (stage, value) of every OnEvent that has returned
    result           \* what Trigger returned to its caller

pipeVars == <<pipeline, chatManage, cfgMaxRounds, sessionMsgCount, fetched,
              fetchFailed, stack, invoked, nextCalled, phase, retval, returned,
              result>>

VARIABLES
    prodPc,          \* position of the goroutine started by ChatStream
    cur,             \* the response the callback is handling
    produced,        \* responses the model has generated, in order
    received,        \* events the consumer has taken from streamChan, in order
    consumer,        \* "reading" or "stopped"
    cancelled        \* the request context has been cancelled

streamVars == <<prodPc, cur, produced, received, consumer, cancelled>>

VARIABLES
    request,         \* per session: "running", "searched", "completed", "failed", "cancelled"
    redisStore,      \* value stored under "tempkb:<session>", Nil when absent
    knowledgeItems,  \* knowledge ids that exist in the knowledge service
    knowledgeBases,  \* knowledge base ids that exist
    lastDelete       \* session, state found and result of the last delete

webVars == <<request, redisStore, knowledgeItems, knowledgeBases, lastDelete>>

VARIABLES
    chunkUnit,       \* chunk search unit: "idle", "running", "done", "failed"
    entityUnit       \* entity/graph search unit, same values

forkVars == <<chunkUnit, entityUnit>>

VARIABLES
    faqA, faqB,      \* two FAQ content descriptors
    hashA, hashB     \* their content hashes, Nil until computed

hashVars == <<faqA, faqB, hashA, hashB>>

VARIABLES
    chunk,           \* a Chunk: its Metadata and ContentHash
    lastOp           \* the last setter called on the chunk

chunkVars == <<chunk, lastOp>>

VARIABLES
    heap,            \* backing arrays and pointed-to structs, by address
    original,        \* the ChatManage that Clone is called on
    clone,           \* the ChatManage returned by Clone, Nil before the call
    writes           \* the contexts through which the heap has been written

cloneVars == <<heap, original, clone, writes>>

VARIABLES
    dbCall           \* the last call of the database query tool, Nil before it

dbVars == <<dbCall>>

VARIABLES
    retryPc,         \* position in BatchEmbed / doRequestWithRetry
    retryI,          \* the loop variable i
    outerErr,        \* the err declared before the loop
    attempts,        \* HTTP requests sent so far
    waits,           \* seconds waited before each retry, in order
    ctxDone,         \* the context has been cancelled
    retryRet         \* what doRequestWithRetry returned, Nil before it returns

retryVars == <<retryPc, retryI, outerErr, attempts, waits, ctxDone, retryRet>>

VARIABLES
    callers,         \* goroutines that call Execute on the one tool instance
    thoughtHistory,  \* t.thoughtHistory
    branches,        \* t.branches
    execPc,          \* per caller: position in Execute
    execLocal,       \* per caller: the input and the values it has loaded
    execLog          \* the results of the finished calls, in order of return

thinkVars == <<callers, thoughtHistory, branches, execPc, execLocal, execLog>>

toolVars == <<dbVars, retryVars, thinkVars>>

svcVars == <<webVars, forkVars, hashVars, chunkVars, cloneVars, toolVars>>

\* what the actions of one service leave alone
otherThanWeb == <<pipeVars, streamVars, forkVars, hashVars, chunkVars, cloneVars, toolVars>>
otherThanFork == <<streamVars, webVars, hashVars, chunkVars, cloneVars, toolVars>>
otherThanHash == <<pipeVars, streamVars, webVars, forkVars, chunkVars, cloneVars, toolVars>>
otherThanChunk == <<pipeVars, streamVars, webVars, forkVars, hashVars, cloneVars, toolVars>>
otherThanDb == <<pipeVars, streamVars, webVars, forkVars, hashVars, chunkVars, cloneVars,
                 retryVars, thinkVars>>
otherThanRetry == <<pipeVars, streamVars, webVars, forkVars, hashVars, chunkVars,
                    cloneVars, dbVars, thinkVars>>
otherThanThink == <<pipeVars, streamVars, webVars, forkVars, hashVars, chunkVars,
                    cloneVars, dbVars, retryVars>>
otherThanClone == <<pipeVars, streamVars, webVars, forkVars, hashVars, chunkVars, toolVars>>

vars == <<pipeVars, streamVars, svcVars>>

Nil == [kind |-> "nil", stage |-> "", cause |-> ""]

ErrTemplateExecute ==
    [kind |-> "ErrTemplateExecute", stage |-> INTO_CHAT_MESSAGE,
     cause |-> "illegal query content"]

StageError(s) == [kind |-> "stage_failed", stage |-> s, cause |-> "collaborator"]

Stages == Pipline[pipeline]

CurStage == Stages[stack[Len(stack)]]

(***************************************************************************)
(* Dispatcher (Event Manager)                                              *)
(***************************************************************************)
\* Trigger(ctx, pipelineName, chatManage): invoke the first stage
Trigger ==
    /\ phase = "ready"
    /\ stack' = <<1>>
    /\ invoked' = <<Stages[1]>>
    /\ phase' = "running"
    /\ UNCHANGED <<nextCalled, retval, returned, result>>
    /\ UNCHANGED <<pipeline, chatManage, cfgMaxRounds, sessionMsgCount, fetched,
                   fetchFailed>>
    /\ UNCHANGED streamVars
    /\ UNCHANGED svcVars

\* the continuation handed to the active plugin: recurse into the next
\* stage, or return nil at the end of the list
CallNext ==
    LET i == stack[Len(stack)]
    IN /\ nextCalled' = Append(nextCalled, Stages[i])
       /\ IF i < Len(Stages)
          THEN /\ stack' = Append(stack, i + 1)
               /\ invoked' = Append(invoked, Stages[i + 1])
               /\ phase' = "running"
               /\ retval' = retval
          ELSE /\ phase' = "unwinding"
               /\ retval' = Nil
               /\ UNCHANGED <<stack, invoked>>
       /\ UNCHANGED <<returned, result>>

\* the active plugin returns e without calling next
ReturnError(e) ==
    /\ phase' = "unwinding"
    /\ retval' = e
    /\ UNCHANGED <<stack, invoked, nextCalled, returned, result>>

\* load_history falls through after next() on the fetch-error path
AfterNext_fallthrough(stage) ==
    IF stage = LOAD_HISTORY /\ fetchFailed THEN "again" ELSE "return"

\* what a plugin does with the value of next(): "return" it
\* (return next()), or "again" when it falls through and calls next once more
AfterNext(stage) == "return"

\* the active OnEvent returns retval to the frame below it, or to Trigger's caller
Return ==
    /\ phase = "unwinding"
    /\ LET d == Len(stack)
       IN /\ returned' = Append(returned, [stage |-> Stages[stack[d]], value |-> retval])
          /\ IF d = 1
             THEN /\ stack' = <<>>
                  /\ phase' = "done"
                  /\ result' = retval
                  /\ UNCHANGED <<invoked, nextCalled, retval>>
             ELSE LET caller == stack[d - 1]
                  IN IF AfterNext(Stages[caller]) = "return"
                        \/ Count(nextCalled, Stages[caller]) >= 2
                     THEN /\ stack' = SubSeq(stack, 1, d - 1)
                          /\ UNCHANGED <<invoked, nextCalled, phase, retval, result>>
                     ELSE /\ stack' = Append(SubSeq(stack, 1, d - 1), caller + 1)
                          /\ invoked' = Append(invoked, Stages[caller + 1])
                          /\ nextCalled' = Append(nextCalled, Stages[caller])
                          /\ phase' = "running"
                          /\ UNCHANGED <<retval, result>>
    /\ UNCHANGED <<pipeline, chatManage, cfgMaxRounds, sessionMsgCount, fetched,
                   fetchFailed>>
    /\ UNCHANGED streamVars
    /\ UNCHANGED svcVars

(***************************************************************************)
(* Plugins                                                                 *)
(***************************************************************************)
\* the fetch failure is returned as a fatal error
OnFetchError_abort ==
    /\ ReturnError(StageError(LOAD_HISTORY))
    /\ UNCHANGED chatManage

\* load_history.go:63-69: the fetch failed; warn and go on with the next stage
OnFetchError ==
    /\ CallNext
    /\ UNCHANGED chatManage

\* PluginLoadHistory.OnEvent
LoadHistoryOnEvent ==
    /\ phase = "running"
    /\ CurStage = LOAD_HISTORY
    /\ LET maxRounds == EffectiveMaxRounds(cfgMaxRounds, chatManage.MaxRounds)
           n == Min(FetchLimit(maxRounds), sessionMsgCount)
       IN \/ /\ fetchFailed' = TRUE
             /\ fetched' = <<>>
             /\ OnFetchError
          \/ \E history \in [1..n -> Messages] :
                /\ fetchFailed' = FALSE
                /\ fetched' = history
                /\ \E l \in LoadedHistories(history, maxRounds) :
                      chatManage' = [chatManage EXCEPT !.History = l]
                /\ CallNext
    /\ UNCHANGED <<pipeline, cfgMaxRounds, sessionMsgCount>>
    /\ UNCHANGED streamVars
    /\ UNCHANGED svcVars

\* the warning is logged but the chain goes on
OnInvalidQuery_continue ==
    /\ CallNext
    /\ UNCHANGED chatManage

\* into_chat_message.go:70-75: the query failed validation
OnInvalidQuery ==
    /\ ReturnError(ErrTemplateExecute)
    /\ UNCHANGED chatManage

\* PluginIntoChatMessage.OnEvent
IntoChatMessageOnEvent ==
    /\ phase = "running"
    /\ CurStage = INTO_CHAT_MESSAGE
    /\ LET v == ValidateInput(chatManage.Query)
       IN IF ~v.ok
          THEN OnInvalidQuery
          ELSE /\ chatManage' =
                    [chatManage EXCEPT !.UserContent =
                        RenderTemplate(ContextTemplate, v.safe, BuildContexts(chatManage))]
               /\ CallNext
    /\ UNCHANGED <<pipeline, cfgMaxRounds, sessionMsgCount, fetched, fetchFailed>>
    /\ UNCHANGED streamVars
    /\ UNCHANGED svcVars

\* stages whose failure aborts the chain; a rewrite failure is handled locally
FatalStages ==
    {CHUNK_SEARCH, CHUNK_SEARCH_PARALLEL, CHUNK_RERANK, CHUNK_MERGE, FILTER_TOP_K,
     DATA_ANALYSIS, CHAT_COMPLETION, CHAT_COMPLETION_STREAM, STREAM_FILTER}

\* the raw hits of the chunk search, at most EmbeddingTopK of them; the
\* results of every source are concatenated, so a chunk found by two sources
\* is there twice
Candidates ==
    <<[ID |-> "c1", ChunkType |-> ChunkTypeText],
      [ID |-> "c2", ChunkType |-> ChunkTypeFAQ],
      [ID |-> "c1", ChunkType |-> ChunkTypeText]>>

SearchOutputs(embeddingTopK) ==
    {[i \in 1..n |-> [ID |-> Candidates[i].ID,
                      ChunkType |-> Candidates[i].ChunkType, Score |-> 90]] :
        n \in 0..Min(embeddingTopK, Len(Candidates))}

\* every other registered plugin: it fails fatally, or does its work and
\* calls next
OtherPluginOnEvent ==
    /\ phase = "running"
    /\ CurStage \notin {LOAD_HISTORY, INTO_CHAT_MESSAGE, CHUNK_SEARCH_PARALLEL,
                         CHUNK_RERANK, CHUNK_MERGE, CHAT_COMPLETION,
                         CHAT_COMPLETION_STREAM}
    /\ \/ /\ CurStage \in FatalStages
          /\ ReturnError(StageError(CurStage))
          /\ UNCHANGED chatManage
       \/ /\ IF CurStage = CHUNK_SEARCH
             THEN \E hits \in SearchOutputs(chatManage.EmbeddingTopK) :
                     chatManage' = [chatManage EXCEPT !.SearchResult = hits]
             ELSE UNCHANGED chatManage
          /\ CallNext
    /\ UNCHANGED <<pipeline, cfgMaxRounds, sessionMsgCount, fetched, fetchFailed>>
    /\ UNCHANGED streamVars
    /\ UNCHANGED svcVars

(***************************************************************************)
(* Rerank stage (CHUNK_RERANK)                                             *)
(***************************************************************************)
\* rerank thresholds in hundredths, the ends of [0,1] included
RerankThresholds == {0, 50, 90, 100}

\* the candidates with the scores the rerank model gave them
Rescored(candidates, scores) ==
    [i \in 1..Len(candidates) |-> [candidates[i] EXCEPT !.Score = scores[i]]]

FilterByThreshold(results, threshold) ==
    SelectSeq(results, LAMBDA r : r.Score >= threshold)

RECURSIVE InsertByScore(_, _)
\* r goes after every result whose score is not lower
InsertByScore(r, sorted) ==
    IF sorted = <<>> THEN <<r>>
    ELSE IF Head(sorted).Score >= r.Score
         THEN <<Head(sorted)>> \o InsertByScore(r, Tail(sorted))
         ELSE <<r>> \o sorted

RECURSIVE SortByScoreDesc(_)
SortByScoreDesc(results) ==
    IF results = <<>> THEN <<>>
    ELSE InsertByScore(results[Len(results)],
                       SortByScoreDesc(SubSeq(results, 1, Len(results) - 1)))

\* every result that passed the threshold is kept
TruncateTopK_keepAll(results, topK) == results

TruncateTopK(results, topK) == SubSeq(results, 1, Min(topK, Len(results)))

\* keep the results at or above the threshold, sorted by descending score,
\* at most topK of them
RerankOutput(candidates, scores, threshold, topK) ==
    TruncateTopK(SortByScoreDesc(FilterByThreshold(Rescored(candidates, scores),
                                                   threshold)), topK)

\* the rerank plugin: the rerank model fails, or it scores every candidate
\* and the plugin stores the result and calls next
ChunkRerankOnEvent ==
    /\ phase = "running"
    /\ CurStage = CHUNK_RERANK
    /\ \/ /\ ReturnError(StageError(CHUNK_RERANK))
          /\ UNCHANGED chatManage
       \/ /\ \E scores \in [1..Len(chatManage.SearchResult) -> ScoreLevels] :
                chatManage' = [chatManage EXCEPT !.RerankResult =
                    RerankOutput(chatManage.SearchResult, scores,
                                 chatManage.RerankThreshold, chatManage.RerankTopK)]
          /\ CallNext
    /\ UNCHANGED <<pipeline, cfgMaxRounds, sessionMsgCount, fetched, fetchFailed>>
    /\ UNCHANGED streamVars
    /\ UNCHANGED svcVars

(***************************************************************************)
(* Merge stage (CHUNK_MERGE)                                               *)
(***************************************************************************)
\* FAQ score multipliers in hundredths
BoostLevels == {100, 150}

\* the FAQ-typed scores multiplied by the boost, when FAQ priority is enabled
Boosted(results, faqEnabled, boost) ==
    [i \in 1..Len(results) |->
        IF faqEnabled /\ IsFAQ(results[i])
        THEN [results[i] EXCEPT !.Score = (results[i].Score * boost) \div 100]
        ELSE results[i]]

\* every result is kept, duplicates included
DedupByID_keepAll(results) == results

RECURSIVE DedupByID(_)
\* a result whose chunk id came earlier in the list is dropped
DedupByID(results) ==
    IF results = <<>> THEN <<>>
    ELSE LET front == SubSeq(results, 1, Len(results) - 1)
             last == results[Len(results)]
         IN IF \E i \in 1..Len(front) : front[i].ID = last.ID
            THEN DedupByID(front)
            ELSE DedupByID(front) \o <<last>>

\* boost, sort by boosted score descending, drop the later duplicates
MergeOutput(reranked, faqEnabled, boost) ==
    DedupByID(SortByScoreDesc(Boosted(reranked, faqEnabled, boost)))

\* the merge plugin: it fails, or stores the merged list and calls next; an
\* empty list is not an error
ChunkMergeOnEvent ==
    /\ phase = "running"
    /\ CurStage = CHUNK_MERGE
    /\ \/ /\ ReturnError(StageError(CHUNK_MERGE))
          /\ UNCHANGED chatManage
       \/ /\ chatManage' = [chatManage EXCEPT !.MergeResult =
                    MergeOutput(chatManage.RerankResult, chatManage.FAQPriorityEnabled,
                                chatManage.FAQScoreBoost)]
          /\ CallNext
    /\ UNCHANGED <<pipeline, cfgMaxRounds, sessionMsgCount, fetched, fetchFailed>>
    /\ UNCHANGED streamVars
    /\ UNCHANGED svcVars

(***************************************************************************)
(* Completion stage and fallback strategy                                  *)
(***************************************************************************)
FallbackStrategies == {"fixed", "model", "unconstrained"}

\* no context detected: the merge stage left an empty list and there is no
\* high-confidence FAQ match
NoContextDetected ==
    /\ Count(nextCalled, CHUNK_MERGE) = 1
    /\ chatManage.MergeResult = <<>>
    /\ ~HasHighConfidenceFAQ(chatManage)

\* the canned text is the response whatever the strategy
PromptVariant_alwaysFixed(strategy) == "none"

\* the prompt variant of the fallback: none for the canned text, the
\* fallback prompt, or the bare query
PromptVariant(strategy) ==
    IF strategy = "fixed" THEN "none"
    ELSE IF strategy = "model" THEN "fallback_prompt"
    ELSE "query_only"

\* the stage has its response: the non-streaming completion returns without
\* calling next, the streaming one hands over to the stream filter
CompletionDone(response) ==
    /\ chatManage' = [chatManage EXCEPT !.ChatResponse = response]
    /\ IF CurStage = CHAT_COMPLETION THEN ReturnError(Nil) ELSE CallNext

\* the completion plugin: without context the fallback strategy picks the
\* canned text or the prompt variant given to the model; a failed model call
\* fails the stage
ChatCompletionOnEvent ==
    /\ phase = "running"
    /\ CurStage \in {CHAT_COMPLETION, CHAT_COMPLETION_STREAM}
    /\ LET variant == IF NoContextDetected
                      THEN PromptVariant(chatManage.FallbackStrategy)
                      ELSE "user_content"
       IN IF variant = "none"
          THEN CompletionDone([source |-> "canned", prompt |-> variant,
                               text |-> chatManage.FallbackResponse])
          ELSE \/ /\ ReturnError(StageError(CurStage))
                  /\ UNCHANGED chatManage
               \/ CompletionDone([source |-> "model", prompt |-> variant,
                                  text |-> "answer"])
    /\ UNCHANGED <<pipeline, cfgMaxRounds, sessionMsgCount, fetched, fetchFailed>>
    /\ UNCHANGED streamVars
    /\ UNCHANGED svcVars

(***************************************************************************)
(* Parallel search coordinator: the CHUNK_SEARCH_PARALLEL stage            *)
(***************************************************************************)
UnitFinished == {"done", "failed"}

\* what the chunk search unit may write to SearchResult
ChunkHits ==
    {<<>>, <<[ID |-> "c1", ChunkType |-> ChunkTypeText, Score |-> 90]>>}

\* what the entity/graph search unit may write to GraphResult
GraphHits == {<<"e1">>}

\* the plugin launches its two units of work
ParallelSearchFork ==
    /\ phase = "running"
    /\ CurStage = CHUNK_SEARCH_PARALLEL
    /\ chunkUnit = "idle"
    /\ entityUnit = "idle"
    /\ chunkUnit' = "running"
    /\ entityUnit' = "running"
    /\ UNCHANGED pipeVars
    /\ UNCHANGED otherThanFork

\* the chunk search unit finishes: it writes SearchResult, or fails
ChunkSearchUnit ==
    /\ chunkUnit = "running"
    /\ \/ /\ chunkUnit' = "failed"
          /\ UNCHANGED chatManage
       \/ /\ chunkUnit' = "done"
          /\ \E hits \in ChunkHits :
                chatManage' = [chatManage EXCEPT !.SearchResult = hits]
    /\ UNCHANGED <<pipeline, cfgMaxRounds, sessionMsgCount, fetched, fetchFailed,
                   stack, invoked, nextCalled, phase, retval, returned, result>>
    /\ UNCHANGED entityUnit
    /\ UNCHANGED otherThanFork

\* the entity search unit finishes: it writes GraphResult, or fails and
\* leaves the graph data empty
EntitySearchUnit ==
    /\ entityUnit = "running"
    /\ \/ /\ entityUnit' = "failed"
          /\ UNCHANGED chatManage
       \/ /\ entityUnit' = "done"
          /\ \E graph \in GraphHits :
                chatManage' = [chatManage EXCEPT !.GraphResult = graph]
    /\ UNCHANGED <<pipeline, cfgMaxRounds, sessionMsgCount, fetched, fetchFailed,
                   stack, invoked, nextCalled, phase, retval, returned, result>>
    /\ UNCHANGED chunkUnit
    /\ UNCHANGED otherThanFork

\* the join lets the plugin go on as soon as the chunk search has finished
JoinReady_chunkOnly == chunkUnit \in UnitFinished

\* the plugin waits for both units, or for the failure of the chunk search
JoinReady ==
    \/ chunkUnit = "failed"
    \/ chunkUnit \in UnitFinished /\ entityUnit \in UnitFinished

\* after the join: a failed chunk search aborts the chain, a failed entity
\* search does not
ParallelSearchJoin ==
    /\ phase = "running"
    /\ CurStage = CHUNK_SEARCH_PARALLEL
    /\ JoinReady
    /\ IF chunkUnit = "failed"
       THEN ReturnError(StageError(CHUNK_SEARCH_PARALLEL))
       ELSE CallNext
    /\ UNCHANGED <<pipeline, chatManage, cfgMaxRounds, sessionMsgCount, fetched,
                   fetchFailed>>
    /\ UNCHANGED forkVars
    /\ UNCHANGED otherThanFork

ForkIdle ==
    /\ chunkUnit = "idle"
    /\ entityUnit = "idle"

(***************************************************************************)
(* Streaming chat (OllamaChat.ChatStream): the goroutine that feeds        *)
(* streamChan, and the consumer of the channel                             *)
(***************************************************************************)
\* a response of the model: Content and ToolCalls are 0 when empty, else
\* the sequence number of the response that carries them
ResponsesAt(k) == [Content : {0, k}, ToolCalls : {0, k}, Done : BOOLEAN]

ResponseTypeAnswer == "answer"
ResponseTypeToolCall == "tool_call"
ResponseTypeError == "error"

AnswerEvent(resp) ==
    [ResponseType |-> ResponseTypeAnswer, Content |-> resp.Content, ToolCalls |-> 0,
     Done |-> FALSE]

ToolCallEvent(resp) ==
    [ResponseType |-> ResponseTypeToolCall, Content |-> 0,
     ToolCalls |-> resp.ToolCalls, Done |-> FALSE]

DoneEvent ==
    [ResponseType |-> ResponseTypeAnswer, Content |-> 0, ToolCalls |-> 0, Done |-> TRUE]

\* the error event is not marked done
ErrorEvent_notDone ==
    [ResponseType |-> ResponseTypeError, Content |-> -1, ToolCalls |-> 0, Done |-> FALSE]

\* Content is err.Error(), written -1
ErrorEvent ==
    [ResponseType |-> ResponseTypeError, Content |-> -1, ToolCalls |-> 0, Done |-> TRUE]

\* the completion marker is sent before the content of the final response
CallbackSends_doneFirst(resp) ==
    (IF resp.Done THEN <<DoneEvent>> ELSE <<>>)
    \o (IF resp.Content # 0 THEN <<AnswerEvent(resp)>> ELSE <<>>)
    \o (IF resp.ToolCalls # 0 THEN <<ToolCallEvent(resp)>> ELSE <<>>)

\* the sends the callback performs for one response, in program order
CallbackSends(resp) ==
    (IF resp.Content # 0 THEN <<AnswerEvent(resp)>> ELSE <<>>)
    \o (IF resp.ToolCalls # 0 THEN <<ToolCallEvent(resp)>> ELSE <<>>)
    \o (IF resp.Done THEN <<DoneEvent>> ELSE <<>>)

\* the consumer sees the newest event first
Deliver_newestFirst(queue, ev) == <<ev>> \o queue

\* a send that finds an event already handed over is dropped, not blocked
Deliver_dropWhenBusy(queue, ev) == IF queue = <<>> THEN <<ev>> ELSE queue

\* streamChan is unbuffered: a send completes when the consumer receives,
\* and the consumer receives values in the order they were sent
Deliver(queue, ev) == Append(queue, ev)

SendingPcs == {"sending", "failing"}

FeedDone == \E i \in 1..Len(produced) : produced[i].Done

\* ChatStream: ensureModelAvailable fails and no stream is returned, or
\* the channel is made and the goroutine started
ChatStream ==
    /\ prodPc = "idle"
    /\ prodPc' \in {"unavailable", "inChat"}
    /\ UNCHANGED <<cur, produced, received, consumer, cancelled>>
    /\ UNCHANGED pipeVars
    /\ UNCHANGED svcVars

\* ollamaService.Chat hands the next response of the model to the callback
FeedResponse ==
    /\ prodPc = "inChat"
    /\ ~cancelled
    /\ ~FeedDone
    /\ Len(produced) < MaxResponses
    /\ \E resp \in ResponsesAt(Len(produced) + 1) :
          /\ produced' = Append(produced, resp)
          /\ cur' = CallbackSends(resp)
          /\ prodPc' = IF CallbackSends(resp) = <<>> THEN "inChat" ELSE "sending"
    /\ UNCHANGED <<received, consumer, cancelled>>
    /\ UNCHANGED pipeVars
    /\ UNCHANGED svcVars

\* a blocked send on streamChan completes: the consumer takes the event
Send ==
    /\ prodPc \in SendingPcs
    /\ consumer = "reading"
    /\ received' = Deliver(received, Head(cur))
    /\ cur' = Tail(cur)
    /\ prodPc' = IF Tail(cur) # <<>> THEN prodPc
                 ELSE IF prodPc = "sending" THEN "inChat" ELSE "closed"
    /\ UNCHANGED <<produced, consumer, cancelled>>
    /\ UNCHANGED pipeVars
    /\ UNCHANGED svcVars

\* ollamaService.Chat returns nil after the model's final (done) response;
\* the deferred close(streamChan) runs
FeedEnd ==
    /\ prodPc = "inChat"
    /\ FeedDone
    /\ prodPc' = "closed"
    /\ UNCHANGED <<cur, produced, received, consumer, cancelled>>
    /\ UNCHANGED pipeVars
    /\ UNCHANGED svcVars

\* ollamaService.Chat returns an error (transport failure, or the context
\* was cancelled): the goroutine sends the error event
FeedFail ==
    /\ prodPc = "inChat"
    /\ cur' = <<ErrorEvent>>
    /\ prodPc' = "failing"
    /\ UNCHANGED <<produced, received, consumer, cancelled>>
    /\ UNCHANGED pipeVars
    /\ UNCHANGED svcVars

\* the request context is cancelled while the stream is open
Cancel ==
    /\ prodPc \in {"inChat", "sending"}
    /\ ~cancelled
    /\ cancelled' = TRUE
    /\ UNCHANGED <<prodPc, cur, produced, received, consumer>>
    /\ UNCHANGED pipeVars
    /\ UNCHANGED svcVars

\* the consumer gives up reading streamChan after the cancellation or after
\* it has seen a done event
ConsumerStop ==
    /\ prodPc \notin {"idle", "unavailable"}
    /\ consumer = "reading"
    /\ cancelled \/ \E i \in 1..Len(received) : received[i].Done
    /\ consumer' = "stopped"
    /\ UNCHANGED <<prodPc, cur, produced, received, cancelled>>
    /\ UNCHANGED pipeVars
    /\ UNCHANGED svcVars

StreamIdle ==
    /\ prodPc = "idle"
    /\ cur = <<>>
    /\ produced = <<>>
    /\ received = <<>>
    /\ consumer = "reading"
    /\ cancelled = FALSE

(***************************************************************************)
(* Web-search temporary knowledge base state (webSearchStateService)       *)
(***************************************************************************)
SessionIDs == {"s1", "s2"}

\* knowledge base ids are strings: empty, blank, or the id of the session's
\* temporary knowledge base
TempKBOf(s) == IF s = "s1" THEN <<LetterChar>> ELSE <<LetterChar, LetterChar>>

TempKBIDs(s) == {<<>>, <<SpaceChar>>, TempKBOf(s)}

\* ids of the knowledge items web search creates for a session
TempKnowledgeIDs(s) ==
    IF s = "s1" THEN {<<>>, <<"k1">>, <<"k1", "k2">>} ELSE {<<>>, <<"k3">>}

\* every knowledge id a session's web search can create
TempItems(s) == UNION {{ids[i] : i \in DOMAIN ids} : ids \in TempKnowledgeIDs(s)}

SeenURLSets == {{}, {"u1"}}

Range(f) == {f[i] : i \in DOMAIN f}

\* fmt.Sprintf("tempkb:%s", sessionID)
StateKey(sessionID) == <<"tempkb:", sessionID>>

\* json.Marshal of the state struct: an object with the three json fields
MarshalState(state) ==
    [kbID |-> state.KBID, knowledgeIDs |-> state.KnowledgeIDs,
     seenURLs |-> state.SeenURLs]

\* json.Unmarshal into the state struct
UnmarshalState(raw) ==
    [KBID |-> raw.kbID, KnowledgeIDs |-> raw.knowledgeIDs, SeenURLs |-> raw.seenURLs]

\* redisClient.Get(ctx, stateKey).Bytes(): the stored bytes, or an error when
\* the key is absent or the command fails
RedisGet(key, ok) == IF ok THEN redisStore[key] ELSE Nil

\* GetWebSearchTempKBState: empty results when nothing can be read
GetWebSearchTempKBState(sessionID, getOk) ==
    LET raw == RedisGet(StateKey(sessionID), getOk)
    IN IF raw # Nil
       THEN [tempKBID |-> UnmarshalState(raw).KBID,
             seenURLs |-> UnmarshalState(raw).SeenURLs,
             knowledgeIDs |-> UnmarshalState(raw).KnowledgeIDs]
       ELSE [tempKBID |-> <<>>, seenURLs |-> {}, knowledgeIDs |-> <<>>]

\* SaveWebSearchTempKBState: Set without expiry; the error of Set is dropped
SaveWebSearchTempKBState(sessionID, tempKBID, seenURLs, knowledgeIDs, setOk) ==
    redisStore' =
        IF setOk
        THEN [redisStore EXCEPT ![StateKey(sessionID)] =
                 MarshalState([KBID |-> tempKBID, KnowledgeIDs |-> knowledgeIDs,
                               SeenURLs |-> seenURLs])]
        ELSE redisStore

\* DeleteWebSearchTempKBState, for a service built with a Redis client.
\* getOk, failedItems, kbOk and delOk are the outcomes of the Redis and
\* service calls it makes.
DeleteWebSearchTempKBState(sessionID) ==
    \E getOk \in BOOLEAN, kbOk \in BOOLEAN, delOk \in BOOLEAN,
       failedItems \in SUBSET TempItems(sessionID) :
       LET stateKey == StateKey(sessionID)
           raw == RedisGet(stateKey, getOk)
           state == UnmarshalState(raw)
           deleted == [redisStore EXCEPT ![stateKey] = Nil]
       IN /\ IF raw = Nil
             THEN \* no state found, nothing to clean up
                  /\ UNCHANGED <<redisStore, knowledgeItems, knowledgeBases>>
                  /\ lastDelete' = [session |-> sessionID, found |-> Nil, ret |-> "nil"]
             ELSE IF TrimSpace(state.KBID) = <<>>
             THEN \* only the key is deleted, the error of Del is dropped
                  /\ redisStore' = IF delOk THEN deleted ELSE redisStore
                  /\ UNCHANGED <<knowledgeItems, knowledgeBases>>
                  /\ lastDelete' = [session |-> sessionID, found |-> state, ret |-> "nil"]
             ELSE \* failed deletes of items and of the base are only logged
                  /\ knowledgeItems' =
                        knowledgeItems \ (Range(state.KnowledgeIDs) \ failedItems)
                  /\ knowledgeBases' =
                        IF kbOk THEN knowledgeBases \ {state.KBID} ELSE knowledgeBases
                  /\ redisStore' = IF delOk THEN deleted ELSE redisStore
                  /\ lastDelete' =
                        [session |-> sessionID, found |-> state,
                         ret |-> IF delOk THEN "nil" ELSE "failed to delete Redis key"]
          /\ UNCHANGED request
          /\ UNCHANGED otherThanWeb

\* the web-search stage of a running request creates the temporary knowledge
\* base and its items for the session and saves their ids
WebSearchStage(sessionID) ==
    /\ request[sessionID] = "running"
    /\ \E tempKBID \in TempKBIDs(sessionID), knowledgeIDs \in TempKnowledgeIDs(sessionID),
          seenURLs \in SeenURLSets, setOk \in BOOLEAN :
          /\ knowledgeBases' = IF TrimSpace(tempKBID) = <<>> THEN knowledgeBases
                                ELSE knowledgeBases \cup {tempKBID}
          /\ knowledgeItems' = knowledgeItems \cup Range(knowledgeIDs)
          /\ SaveWebSearchTempKBState(sessionID, tempKBID, seenURLs, knowledgeIDs, setOk)
    /\ request' = [request EXCEPT ![sessionID] = "searched"]
    /\ UNCHANGED lastDelete
    /\ UNCHANGED otherThanWeb

\* the request of a session ends: normally, with an error, or cancelled
RequestEnd(sessionID) ==
    /\ request[sessionID] \in {"running", "searched"}
    /\ \E outcome \in {"completed", "failed", "cancelled"} :
          request' = [request EXCEPT ![sessionID] = outcome]
    /\ UNCHANGED <<redisStore, knowledgeItems, knowledgeBases, lastDelete>>
    /\ UNCHANGED otherThanWeb

WebIdle ==
    /\ request = [s \in SessionIDs |-> "running"]
    /\ redisStore = [k \in {StateKey(s) : s \in SessionIDs} |-> Nil]
    /\ knowledgeItems = {}
    /\ knowledgeBases = {}
    /\ lastDelete = Nil

(***************************************************************************)
(* FAQ chunk metadata and content hash (types.FAQChunkMetadata, Chunk)     *)
(***************************************************************************)
LetterB == "b"           \* byte 98
CommaChar == ","         \* byte 44
PipeChar == "|"          \* byte 124
ReplacementChar == "\\uFFFD" \* U+FFFD, bytes EF BF BD

\* first byte of an atom, the key of the byte-wise order of sort.Strings
ByteOf(a) ==
    CASE a = CtrlChar -> 1
      [] a = TabChar -> 9
      [] a = SpaceChar -> 32
      [] a = CommaChar -> 44
      [] a = LetterChar -> 97
      [] a = LetterB -> 98
      [] a = XssAtom -> 106
      [] a = PipeChar -> 124
      [] a = BadByte -> 128
      [] a = ReplacementChar -> 239

RECURSIVE StringLess(_, _)
\* s < t for Go strings
StringLess(s, t) ==
    IF t = <<>> THEN FALSE
    ELSE IF s = <<>> THEN TRUE
    ELSE IF Head(s) # Head(t) THEN ByteOf(Head(s)) < ByteOf(Head(t))
    ELSE StringLess(Tail(s), Tail(t))

RECURSIVE InsertSorted(_, _)
InsertSorted(x, sorted) ==
    IF sorted = <<>> THEN <<x>>
    ELSE IF StringLess(Head(sorted), x)
         THEN <<Head(sorted)>> \o InsertSorted(x, Tail(sorted))
         ELSE <<x>> \o sorted

\* the lists are hashed in the order given
SortStrings_keepOrder(list) == list

RECURSIVE SortStrings(_)
\* sort.Strings on a copy of the list
SortStrings(list) ==
    IF list = <<>> THEN <<>> ELSE InsertSorted(Head(list), SortStrings(Tail(list)))

RECURSIVE JoinStrings(_, _)
\* strings.Join(list, sep)
JoinStrings(list, sep) ==
    IF list = <<>> THEN <<>>
    ELSE IF Len(list) = 1 THEN list[1]
    ELSE list[1] \o <<sep>> \o JoinStrings(Tail(list), sep)

RECURSIVE NormalizeLoop(_, _)
NormalizeLoop(values, dedup) ==
    IF values = <<>> THEN dedup
    ELSE LET trimmed == TrimSpace(Head(values))
         IN IF trimmed = <<>> \/ trimmed \in Range(dedup)
            THEN NormalizeLoop(Tail(values), dedup)
            ELSE NormalizeLoop(Tail(values), Append(dedup, trimmed))

\* normalizeStrings: trimmed, non-empty, first occurrences in order (nil
\* and the empty slice are both <<>>)
NormalizeStrings(values) == NormalizeLoop(values, <<>>)

\* FAQChunkMetadata.Normalize
Normalize(m) ==
    [StandardQuestion |-> TrimSpace(m.StandardQuestion),
     SimilarQuestions |-> NormalizeStrings(m.SimilarQuestions),
     NegativeQuestions |-> NormalizeStrings(m.NegativeQuestions),
     Answers |-> NormalizeStrings(m.Answers),
     Version |-> IF m.Version <= 0 THEN 1 ELSE m.Version]

\* sha256.Sum256 and hex.EncodeToString, taken to be free of collisions
Sha256Hex(bytes) == <<"sha256", bytes>>

\* CalculateFAQContentHash; "" is <<>>
CalculateFAQContentHash(meta) ==
    IF meta = Nil THEN <<>>
    ELSE LET normalized == Normalize(meta)
             similarQuestions == SortStrings(normalized.SimilarQuestions)
             negativeQuestions == SortStrings(normalized.NegativeQuestions)
             answers == SortStrings(normalized.Answers)
         IN Sha256Hex(normalized.StandardQuestion
                      \o <<PipeChar>> \o JoinStrings(similarQuestions, CommaChar)
                      \o <<PipeChar>> \o JoinStrings(negativeQuestions, CommaChar)
                      \o <<PipeChar>> \o JoinStrings(answers, CommaChar))

\* json.Marshal of a string: invalid bytes become U+FFFD
CoerceUTF8(str) ==
    [i \in 1..Len(str) |-> IF str[i] = BadByte THEN ReplacementChar ELSE str[i]]

CoerceAll(list) == [i \in 1..Len(list) |-> CoerceUTF8(list[i])]

\* json.Marshal(meta) for a FAQChunkMetadata
MarshalFAQ(meta) ==
    [standard_question |-> CoerceUTF8(meta.StandardQuestion),
     similar_questions |-> CoerceAll(meta.SimilarQuestions),
     negative_questions |-> CoerceAll(meta.NegativeQuestions),
     answers |-> CoerceAll(meta.Answers),
     version |-> meta.Version]

\* json.Marshal(meta) for a DocumentChunkMetadata
MarshalDocument(meta) == [generated_questions |-> meta.GeneratedQuestions]

\* json.Unmarshal into a FAQChunkMetadata: absent fields stay zero
UnmarshalFAQ(raw) ==
    [StandardQuestion |->
        IF "standard_question" \in DOMAIN raw THEN raw.standard_question ELSE <<>>,
     SimilarQuestions |->
        IF "similar_questions" \in DOMAIN raw THEN raw.similar_questions ELSE <<>>,
     NegativeQuestions |->
        IF "negative_questions" \in DOMAIN raw THEN raw.negative_questions ELSE <<>>,
     Answers |-> IF "answers" \in DOMAIN raw THEN raw.answers ELSE <<>>,
     Version |-> IF "version" \in DOMAIN raw THEN raw.version ELSE 0]

\* Chunk.FAQMetadata: nil when the chunk has no metadata
FAQMetadata(c) ==
    IF c.Metadata = Nil THEN Nil ELSE Normalize(UnmarshalFAQ(c.Metadata))

FaqQuestions == {<<LetterChar>>, <<SpaceChar, LetterChar>>}

FaqStrings ==
    {<<LetterChar>>, <<SpaceChar, LetterChar>>, <<LetterB>>,
     <<LetterChar, CommaChar, LetterB>>}

\* the descriptors hashed in pairs
FaqDescriptors ==
    [StandardQuestion : FaqQuestions,
     SimilarQuestions : {<<<<LetterChar>>, <<LetterB>>>>, <<<<LetterB>>, <<LetterChar>>>>},
     NegativeQuestions : {<<>>, <<<<LetterB>>>>},
     Answers : SeqsUpTo(FaqStrings, MaxFaqItems),
     Version : {0}]

\* the descriptors written to a chunk: also text that is not valid UTF-8
ChunkMetas ==
    [StandardQuestion : FaqQuestions,
     SimilarQuestions : {<<>>, <<<<LetterB>>>>},
     NegativeQuestions : {<<>>},
     Answers : SeqsUpTo(FaqStrings \cup {<<LetterChar, BadByte>>}, MaxFaqItems),
     Version : {0, 2}]

DocumentMetas == {[GeneratedQuestions |-> <<>>], [GeneratedQuestions |-> <<"g1">>]}

\* the two descriptors are hashed
CalculateHashes ==
    /\ hashA = Nil
    /\ hashA' = CalculateFAQContentHash(faqA)
    /\ hashB' = CalculateFAQContentHash(faqB)
    /\ UNCHANGED <<faqA, faqB>>
    /\ UNCHANGED otherThanHash

\* Chunk.SetFAQMetadata(meta) on a non-nil chunk
SetFAQMetadata ==
    /\ \E meta \in ChunkMetas \cup {Nil} :
          chunk' = IF meta = Nil
                   THEN [Metadata |-> Nil, ContentHash |-> <<>>]
                   ELSE [Metadata |-> MarshalFAQ(Normalize(meta)),
                         ContentHash |-> CalculateFAQContentHash(Normalize(meta))]
    /\ lastOp' = "SetFAQMetadata"
    /\ UNCHANGED otherThanChunk

\* Chunk.SetDocumentMetadata(meta) on a non-nil chunk
SetDocumentMetadata ==
    /\ \E meta \in DocumentMetas \cup {Nil} :
          chunk' = [chunk EXCEPT !.Metadata =
                       IF meta = Nil THEN Nil ELSE MarshalDocument(meta)]
    /\ lastOp' = "SetDocumentMetadata"
    /\ UNCHANGED otherThanChunk

HashIdle ==
    /\ faqA = Nil
    /\ faqB = Nil
    /\ hashA = Nil
    /\ hashB = Nil

ChunkIdle ==
    /\ chunk = [Metadata |-> Nil, ContentHash |-> <<>>]
    /\ lastOp = "new"

(***************************************************************************)
(* ChatManage.Clone.  Slices and pointers are addresses into the heap; 0 is *)
(* nil.  Fields not listed behave like a listed one: the other scalars of  *)
(* the composite literal like Query, and SearchResult, RerankResult,       *)
(* Entity, EntityKBIDs, EntityKnowledge, GraphResult, ChatResponse and     *)
(* EventBus like MergeResult.                                              *)
(***************************************************************************)
Deref(h, a) == IF a = 0 THEN <<>> ELSE h[a]

\* a slice the caller may hold: nil, or a backing array with these elements
SliceOptions(elems) == {[isNil |-> TRUE, elems |-> <<>>]} \cup
                       {[isNil |-> FALSE, elems |-> e] : e \in elems}

RefOf(option, a) == IF option.isNil THEN 0 ELSE a

\* the heap and the context of a request whose slices hold the given values
HeapOf(kbs, kids, hist, merged, targets) ==
    <<kbs.elems, kids.elems, hist.elems, merged.elems,
      IF targets.elems = <<>> THEN <<>> ELSE <<6>>,
      [Type |-> "knowledge", KnowledgeBaseID |-> "kb1", KnowledgeIDs |-> 7],
      targets.elems>>

ContextOf(query, webSearch, messageID, kbs, kids, hist, merged, targets) ==
    [Query |-> query, SessionID |-> "s1", RerankTopK |-> 1, TenantID |-> 1,
     FAQPriorityEnabled |-> TRUE,
     KnowledgeBaseIDs |-> RefOf(kbs, 1),
     KnowledgeIDs |-> RefOf(kids, 2),
     SearchTargets |-> RefOf(targets, 5),
     History |-> RefOf(hist, 3),
     MergeResult |-> RefOf(merged, 4),
     UserContent |-> IF merged.isNil THEN <<>> ELSE <<LetterChar>>,
     MessageID |-> messageID,
     WebSearchEnabled |-> webSearch]

\* lines 65-85: the backing arrays and the SearchTarget that Clone allocates,
\* appended to the heap h
CloneHeap(h, c) ==
    LET n == Len(h)
        targets == Deref(h, c.SearchTargets)
    IN h \o <<Deref(h, c.KnowledgeBaseIDs),
              Deref(h, c.KnowledgeIDs),
              IF targets = <<>> THEN <<>> ELSE <<n + 4>>,
              IF targets = <<>> THEN <<>>
              ELSE [Type |-> h[targets[1]].Type,
                    KnowledgeBaseID |-> h[targets[1]].KnowledgeBaseID,
                    KnowledgeIDs |-> n + 5],
              IF targets = <<>> THEN <<>>
              ELSE Deref(h, h[targets[1]].KnowledgeIDs)>>

\* lines 87-130: the composite literal; a field it does not list is zero
CloneContext(h, c) ==
    LET n == Len(h)
    IN [Query |-> c.Query, SessionID |-> c.SessionID, RerankTopK |-> c.RerankTopK,
        TenantID |-> c.TenantID, FAQPriorityEnabled |-> c.FAQPriorityEnabled,
        KnowledgeBaseIDs |-> n + 1,
        KnowledgeIDs |-> n + 2,
        SearchTargets |-> n + 3,
        History |-> 0,
        MergeResult |-> 0,
        UserContent |-> <<>>,
        MessageID |-> "",
        WebSearchEnabled |-> FALSE]

StringSliceFields == {"KnowledgeBaseIDs", "KnowledgeIDs", "History", "MergeResult"}

\* the value a context has in every field, slices and pointers followed
DeepValue(h, c) ==
    [Query |-> c.Query, SessionID |-> c.SessionID, RerankTopK |-> c.RerankTopK,
     TenantID |-> c.TenantID, FAQPriorityEnabled |-> c.FAQPriorityEnabled,
     KnowledgeBaseIDs |-> Deref(h, c.KnowledgeBaseIDs),
     KnowledgeIDs |-> Deref(h, c.KnowledgeIDs),
     SearchTargets |->
        [i \in DOMAIN Deref(h, c.SearchTargets) |->
            LET t == h[Deref(h, c.SearchTargets)[i]]
            IN [Type |-> t.Type, KnowledgeBaseID |-> t.KnowledgeBaseID,
                KnowledgeIDs |-> Deref(h, t.KnowledgeIDs)]],
     History |-> Deref(h, c.History),
     MergeResult |-> Deref(h, c.MergeResult),
     UserContent |-> c.UserContent,
     MessageID |-> c.MessageID,
     WebSearchEnabled |-> c.WebSearchEnabled]

\* the addresses reachable from a context
Addrs(h, c) ==
    LET targets == Deref(h, c.SearchTargets)
    IN ({c[f] : f \in StringSliceFields} \cup {c.SearchTargets}
        \cup {targets[i] : i \in DOMAIN targets}
        \cup {h[targets[i]].KnowledgeIDs : i \in DOMAIN targets}) \ {0}

\* c.Clone()
Clone ==
    /\ clone = Nil
    /\ heap' = CloneHeap(heap, original)
    /\ clone' = CloneContext(heap, original)
    /\ UNCHANGED <<original, writes>>
    /\ UNCHANGED otherThanClone

Holder(who) == IF who = "original" THEN original ELSE clone

\* a later change made through one of the two contexts: an element of one of
\* its slices is overwritten
WriteElement(who) ==
    /\ clone # Nil
    /\ \E f \in StringSliceFields :
          /\ Deref(heap, Holder(who)[f]) # <<>>
          /\ heap' = [heap EXCEPT ![Holder(who)[f]][1] = "changed"]
    /\ writes' = writes \cup {who}
    /\ UNCHANGED <<original, clone>>
    /\ UNCHANGED otherThanClone

\* a later change of the knowledge ids of a search target of one context
WriteTarget(who) ==
    /\ clone # Nil
    /\ \E a \in {heap[t].KnowledgeIDs :
                    t \in {Deref(heap, Holder(who).SearchTargets)[i] :
                             i \in DOMAIN Deref(heap, Holder(who).SearchTargets)}} :
          /\ heap[a] # <<>>
          /\ heap' = [heap EXCEPT ![a][1] = "changed"]
    /\ writes' = writes \cup {who}
    /\ UNCHANGED <<original, clone>>
    /\ UNCHANGED otherThanClone

CloneIdle ==
    /\ heap = <<>>
    /\ original = Nil
    /\ clone = Nil
    /\ writes = {}

(***************************************************************************)
(* Database query tool (SQLSecurityValidator).  A query is the parse tree  *)
(* of a single SELECT: its FROM items and its WHERE clause as a list of    *)
(* conditions joined by AND / OR.                                          *)
(***************************************************************************)
AllowedTables ==
    {"tenants", "knowledge_bases", "knowledges", "sessions", "messages", "chunks",
     "embeddings", "models"}

TablesWithTenantID == {"tenants", "knowledge_bases", "knowledges", "sessions", "chunks"}

TenantIDs == {1, 2}

Cond(name) == [kind |-> "cond", name |-> name, conds |-> {}]
Op(name) == [kind |-> "op", name |-> name, conds |-> {}]
TenantFilter(conds) == [kind |-> "tenant", name |-> "", conds |-> conds]

FromItems == [table : {"knowledges", "messages", "pg_class"}, alias : {"", "b"}]

WhereClauses == {<<>>, <<Cond("p")>>, <<Cond("p"), Op("OR"), Cond("q")>>}

SqlQueries == [from : SeqsUpTo(FromItems, MaxFromItems), where : WhereClauses]

\* validateFromItem: the alias of a RangeVar, the table name when it has none
AliasOf(item) == IF item.alias = "" THEN item.table ELSE item.alias

\* validateSelectStmt: tablesInQuery, table name -> alias; a later FROM item
\* of the same table replaces the alias of an earlier one
TablesInQuery(from) ==
    [t \in {from[i].table : i \in 1..Len(from)} |->
        AliasOf(from[CHOOSE i \in 1..Len(from) :
                        /\ from[i].table = t
                        /\ \A j \in (i + 1)..Len(from) : from[j].table # t])]

ValidateSelectStmt(q) ==
    IF \E i \in 1..Len(q.from) : q.from[i].table \notin AllowedTables
    THEN [err |-> "table not allowed", tables |-> <<>>]
    ELSE IF q.from = <<>>
    THEN [err |-> "no valid table found in query", tables |-> <<>>]
    ELSE [err |-> "", tables |-> TablesInQuery(q.from)]

\* injectTenantConditions: one condition per table of tablesInQuery that has
\* a tenant column, joined by AND and put in front of the WHERE clause
InjectTenantConditions(q, tables, tenantID) ==
    LET conditions == {[alias |-> tables[t], tenant |-> tenantID] :
                          t \in (DOMAIN tables) \cap TablesWithTenantID}
    IN IF conditions = {} THEN q
       ELSE IF q.where # <<>>
       THEN [q EXCEPT !.where = <<TenantFilter(conditions), Op("AND")>> \o q.where]
       ELSE [q EXCEPT !.where = <<TenantFilter(conditions)>>]

ValidateAndSecure(q, tenantID) ==
    LET v == ValidateSelectStmt(q)
    IN IF v.err # "" THEN [err |-> v.err, secured |-> Nil]
       ELSE [err |-> "", secured |-> InjectTenantConditions(q, v.tables, tenantID)]

\* DatabaseQueryTool.Execute up to the secured SQL handed to the database
DatabaseQueryExecute ==
    /\ \E tenantID \in TenantIDs, q \in SqlQueries :
          dbCall' = [tenant |-> tenantID, query |-> q,
                     out |-> ValidateAndSecure(q, tenantID)]
    /\ UNCHANGED otherThanDb

DbIdle == dbCall = Nil

\* the database's reading of a WHERE clause: AND binds tighter than OR.
\* owners[i] is the tenant that owns the row taken from FROM item i.
OperandValue(token, from, owners, truth) ==
    IF token.kind = "cond" THEN truth[token.name]
    ELSE \A c \in token.conds :
            \A i \in 1..Len(from) : AliasOf(from[i]) = c.alias => owners[i] = c.tenant

RECURSIVE EvalWhere(_, _, _, _)
EvalWhere(tokens, from, owners, truth) ==
    IF tokens = <<>> THEN TRUE
    ELSE LET ors == {k \in 1..Len(tokens) : tokens[k] = Op("OR")}
             k == IF ors = {} THEN Len(tokens) + 1
                  ELSE CHOOSE x \in ors : \A y \in ors : x <= y
         IN \/ \A j \in 1..(k - 1) :
                  tokens[j].kind = "op" \/ OperandValue(tokens[j], from, owners, truth)
            \/ /\ k <= Len(tokens)
               /\ EvalWhere(SubSeq(tokens, k + 1, Len(tokens)), from, owners, truth)

\* some result row of the secured query is built from a row of another tenant
ReturnsForeignRow(secured, tenantID) ==
    \E owners \in [1..Len(secured.from) -> TenantIDs],
       truth \in [{"p", "q"} -> BOOLEAN] :
        /\ \A i, j \in 1..Len(secured.from) :
              AliasOf(secured.from[i]) = AliasOf(secured.from[j]) => i = j
        /\ EvalWhere(secured.where, secured.from, owners, truth)
        /\ \E i \in 1..Len(secured.from) : owners[i] # tenantID

(***************************************************************************)
(* Embedders: BatchEmbed and doRequestWithRetry (Aliyun, Volcengine and    *)
(* Jina have the same loop)                                                *)
(***************************************************************************)
MaxRetries == 3
MaxBackoffSeconds == 10

NoError == ""
NilResponse == "nil"

\* every retry waits one second
Backoff_oneSecond(i) == 1

\* backoffTime: 1<<(i-1) seconds, at most 10
Backoff(i) == Min(2 ^ (i - 1), MaxBackoffSeconds)

\* BatchEmbed calls doRequestWithRetry: var resp, var err, i := 0
BatchEmbed ==
    /\ retryPc = "idle"
    /\ retryPc' = "loop"
    /\ retryI' = 0
    /\ outerErr' = NoError
    /\ UNCHANGED <<attempts, waits, ctxDone, retryRet>>
    /\ UNCHANGED otherThanRetry

\* the loop condition i <= e.maxRetries, and after the loop: return nil, err
RetryLoop ==
    /\ retryPc = "loop"
    /\ IF retryI <= MaxRetries
       THEN /\ retryPc' = IF retryI > 0 THEN "wait" ELSE "send"
            /\ UNCHANGED retryRet
       ELSE /\ retryPc' = "returned"
            /\ retryRet' = [resp |-> NilResponse, err |-> outerErr]
    /\ UNCHANGED <<retryI, outerErr, attempts, waits, ctxDone>>
    /\ UNCHANGED otherThanRetry

\* select: the backoff timer fires, or the context is done
RetryWait ==
    /\ retryPc = "wait"
    /\ \/ /\ waits' = Append(waits, Backoff(retryI))
          /\ retryPc' = "send"
          /\ UNCHANGED retryRet
       \/ /\ ctxDone
          /\ retryPc' = "returned"
          /\ retryRet' = [resp |-> NilResponse, err |-> "context canceled"]
          /\ UNCHANGED waits
    /\ UNCHANGED <<retryI, outerErr, attempts, ctxDone>>
    /\ UNCHANGED otherThanRetry

\* req, err := NewRequestWithContext(...) declares a new err in the loop
\* body; resp, err = httpClient.Do(req) assigns that one, so the err declared
\* before the loop is never assigned
RetrySend ==
    /\ retryPc = "send"
    /\ \/ \* the request cannot be created: continue
          /\ retryI' = retryI + 1
          /\ retryPc' = "loop"
          /\ UNCHANGED <<attempts, retryRet>>
       \/ \* the request is sent and answered
          /\ ~ctxDone
          /\ attempts' = attempts + 1
          /\ retryPc' = "returned"
          /\ retryRet' = [resp |-> "response", err |-> NoError]
          /\ UNCHANGED retryI
       \/ \* the request is sent and fails
          /\ attempts' = attempts + 1
          /\ retryI' = retryI + 1
          /\ retryPc' = "loop"
          /\ UNCHANGED retryRet
    /\ UNCHANGED <<outerErr, waits, ctxDone>>
    /\ UNCHANGED otherThanRetry

\* BatchEmbed after the call: the error is returned, or the body of the
\* response is read
BatchEmbedRead ==
    /\ retryPc = "returned"
    /\ retryPc' = IF retryRet.err # NoError THEN "send request error"
                  ELSE IF retryRet.resp = NilResponse THEN "nil pointer dereference"
                  ELSE "body read"
    /\ UNCHANGED <<retryI, outerErr, attempts, waits, ctxDone, retryRet>>
    /\ UNCHANGED otherThanRetry

\* the caller cancels the context
CancelContext ==
    /\ retryPc \in {"loop", "wait", "send"}
    /\ ~ctxDone
    /\ ctxDone' = TRUE
    /\ UNCHANGED <<retryPc, retryI, outerErr, attempts, waits, retryRet>>
    /\ UNCHANGED otherThanRetry

RetryIdle ==
    /\ retryPc = "idle"
    /\ retryI = 0
    /\ outerErr = NoError
    /\ attempts = 0
    /\ waits = <<>>
    /\ ctxDone = FALSE
    /\ retryRet = Nil

(***************************************************************************)
(* Sequential-thinking tool (SequentialThinkingTool.Execute).  The         *)
(* arguments are a JSON object: a function from keys to JSON values.       *)
(***************************************************************************)
JsonStr(x) == [t |-> "string", n |-> 0, s |-> x, b |-> FALSE]
JsonInt(x) == [t |-> "number", n |-> x, s |-> "", b |-> FALSE]
JsonBool(x) == [t |-> "bool", n |-> 0, s |-> "", b |-> x]

\* objects written with the keys of the json tags of SequentialThinkingInput
TaggedArgs ==
    {[thought |-> JsonStr(th), thought_number |-> JsonInt(tn),
      total_thoughts |-> JsonInt(tt), next_thought_needed |-> JsonBool(nx)] :
        <<th, tn, tt>> \in {<<"t", 1, 5>>, <<"t", 6, 5>>, <<"", 1, 5>>, <<"t", 0, 5>>,
                            <<"t", 1, 0>>},
        nx \in {TRUE}}
    \cup
    {[thought |-> JsonStr("t"), thought_number |-> JsonInt(2),
      total_thoughts |-> JsonInt(5), next_thought_needed |-> JsonBool(FALSE),
      branch_from_thought |-> JsonInt(1), branch_id |-> JsonStr("b1")],
     [thought |-> JsonStr("t"), thought_number |-> JsonStr("one"),
      total_thoughts |-> JsonInt(5), next_thought_needed |-> JsonBool(TRUE)]}

\* objects written with the keys of the published schema
SchemaArgs ==
    {[thought |-> JsonStr("t"), thoughtNumber |-> JsonInt(tn),
      totalThoughts |-> JsonInt(5), nextThoughtNeeded |-> JsonBool(nx)] :
        tn \in {1}, nx \in BOOLEAN}

ArgObjects == TaggedArgs \cup SchemaArgs

\* the schema's "required" keys and minimums
SatisfiesSchema(args) ==
    /\ {"thought", "nextThoughtNeeded", "thoughtNumber", "totalThoughts"}
           \subseteq DOMAIN args
    /\ args["thought"].t = "string"
    /\ args["nextThoughtNeeded"].t = "bool"
    /\ args["thoughtNumber"].t = "number" /\ args["thoughtNumber"].n >= 1
    /\ args["totalThoughts"].t = "number" /\ args["totalThoughts"].n >= 5

\* json.Unmarshal: a field takes the value of the key equal to its json tag,
\* keeps its zero value when the key is absent, and a value of the wrong
\* JSON type is an error
FieldTypes ==
    [thought |-> "string", thought_number |-> "number", total_thoughts |-> "number",
     next_thought_needed |-> "bool", branch_from_thought |-> "number",
     branch_id |-> "string"]

Unmarshal(args) ==
    LET has(k) == k \in DOMAIN args
        val(k) == IF has(k) THEN args[k] ELSE [t |-> FieldTypes[k], n |-> 0, s |-> "",
                                                b |-> FALSE]
    IN [err |-> \E k \in DOMAIN FieldTypes : has(k) /\ args[k].t # FieldTypes[k],
        input |-> [Thought |-> val("thought").s,
                   ThoughtNumber |-> val("thought_number").n,
                   TotalThoughts |-> val("total_thoughts").n,
                   NextThoughtNeeded |-> val("next_thought_needed").b,
                   BranchFromThought |-> val("branch_from_thought").n,
                   BranchID |-> val("branch_id").s]]

\* SequentialThinkingTool.validate
Validate(data) ==
    IF data.Thought = "" THEN "invalid thought: must be a non-empty string"
    ELSE IF data.ThoughtNumber < 1 THEN "invalid thoughtNumber: must be >= 1"
    ELSE IF data.TotalThoughts < 1 THEN "invalid totalThoughts: must be >= 1"
    ELSE NoError

\* the history holds the newest thought only
AppendThought_overwrite(history, input) == <<input>>

\* append(t.thoughtHistory, input)
AppendThought(history, input) == Append(history, input)

NoInput ==
    [Thought |-> "", ThoughtNumber |-> 0, TotalThoughts |-> 0,
     NextThoughtNeeded |-> FALSE, BranchFromThought |-> 0, BranchID |-> ""]

NoLocal == [args |-> <<>>, input |-> NoInput, loaded |-> <<>>]

CallsStarted ==
    Len(execLog) + Cardinality({p \in callers : execPc[p] # "idle"})

\* Execute up to the append: parse, validate, adjust totalThoughts
ExecuteStart(p) ==
    /\ execPc[p] = "idle"
    /\ CallsStarted < MaxCalls
    /\ \E args \in ArgObjects :
          LET u == Unmarshal(args)
              failure == IF u.err THEN "Failed to parse args" ELSE Validate(u.input)
              input == IF u.input.ThoughtNumber > u.input.TotalThoughts
                       THEN [u.input EXCEPT !.TotalThoughts = u.input.ThoughtNumber]
                       ELSE u.input
          IN IF failure # NoError
             THEN /\ execLog' = Append(execLog,
                        [caller |-> p, args |-> args, ok |-> FALSE, error |-> failure,
                         thought_number |-> 0, total_thoughts |-> 0,
                         next_thought_needed |-> FALSE, thought_history_length |-> 0,
                         branches |-> {}])
                  /\ UNCHANGED <<execPc, execLocal>>
             ELSE /\ execPc' = [execPc EXCEPT ![p] = "load"]
                  /\ execLocal' = [execLocal EXCEPT ![p] =
                        [args |-> args, input |-> input, loaded |-> <<>>]]
                  /\ UNCHANGED execLog
    /\ UNCHANGED <<callers, thoughtHistory, branches>>
    /\ UNCHANGED otherThanThink

\* append reads t.thoughtHistory ...
ExecuteLoadHistory(p) ==
    /\ execPc[p] = "load"
    /\ execLocal' = [execLocal EXCEPT ![p].loaded = thoughtHistory]
    /\ execPc' = [execPc EXCEPT ![p] = "store"]
    /\ UNCHANGED <<callers, thoughtHistory, branches, execLog>>
    /\ UNCHANGED otherThanThink

\* ... and the result is assigned to t.thoughtHistory
ExecuteStoreHistory(p) ==
    /\ execPc[p] = "store"
    /\ thoughtHistory' = AppendThought(execLocal[p].loaded, execLocal[p].input)
    /\ execPc' = [execPc EXCEPT ![p] =
          IF execLocal[p].input.BranchFromThought # 0 /\ execLocal[p].input.BranchID # ""
          THEN "branch_load" ELSE "respond"]
    /\ UNCHANGED <<callers, branches, execLocal, execLog>>
    /\ UNCHANGED otherThanThink

\* append reads t.branches[input.BranchID] ...
ExecuteLoadBranch(p) ==
    /\ execPc[p] = "branch_load"
    /\ LET id == execLocal[p].input.BranchID
       IN execLocal' = [execLocal EXCEPT ![p].loaded =
                           IF id \in DOMAIN branches THEN branches[id] ELSE <<>>]
    /\ execPc' = [execPc EXCEPT ![p] = "branch_store"]
    /\ UNCHANGED <<callers, thoughtHistory, branches, execLog>>
    /\ UNCHANGED otherThanThink

\* ... and the result is assigned to t.branches[input.BranchID]
ExecuteStoreBranch(p) ==
    /\ execPc[p] = "branch_store"
    /\ LET id == execLocal[p].input.BranchID
       IN branches' = [k \in DOMAIN branches \cup {id} |->
                          IF k = id THEN Append(execLocal[p].loaded, execLocal[p].input)
                          ELSE branches[k]]
    /\ execPc' = [execPc EXCEPT ![p] = "respond"]
    /\ UNCHANGED <<callers, thoughtHistory, execLocal, execLog>>
    /\ UNCHANGED otherThanThink

\* the response data is built and the call returns
ExecuteRespond(p) ==
    /\ execPc[p] = "respond"
    /\ execLog' = Append(execLog,
          [caller |-> p, args |-> execLocal[p].args, ok |-> TRUE, error |-> NoError,
           thought_number |-> execLocal[p].input.ThoughtNumber,
           total_thoughts |-> execLocal[p].input.TotalThoughts,
           next_thought_needed |-> execLocal[p].input.NextThoughtNeeded,
           thought_history_length |-> Len(thoughtHistory),
           branches |-> DOMAIN branches])
    /\ execPc' = [execPc EXCEPT ![p] = "idle"]
    /\ execLocal' = [execLocal EXCEPT ![p] = NoLocal]
    /\ UNCHANGED <<callers, thoughtHistory, branches>>
    /\ UNCHANGED otherThanThink

CallerIDs == {1, 2}

\* NewSequentialThinkingTool, before any caller
ThinkIdle ==
    /\ callers = {}
    /\ thoughtHistory = <<>>
    /\ branches = <<>>
    /\ execPc = [p \in CallerIDs |-> "idle"]
    /\ execLocal = [p \in CallerIDs |-> NoLocal]
    /\ execLog = <<>>

ToolsIdle == DbIdle /\ RetryIdle /\ ThinkIdle

SvcIdle == WebIdle /\ ForkIdle /\ HashIdle /\ ChunkIdle /\ CloneIdle /\ ToolsIdle

(***************************************************************************)
(* Specifications of the pipeline                                          *)
(***************************************************************************)
Queries == SeqsUpTo(Atoms, MaxQueryLen)

NewChatManage(query, maxRounds, faqEnabled, faqThreshold) ==
    [Query |-> query, MaxRounds |-> maxRounds, History |-> <<>>,
     SearchResult |-> <<>>, GraphResult |-> <<>>,
     EmbeddingTopK |-> 0, RerankResult |-> <<>>, RerankTopK |-> 1,
     RerankThreshold |-> 50,
     MergeResult |-> <<>>, UserContent |-> <<>>,
     FAQPriorityEnabled |-> faqEnabled, FAQDirectAnswerThreshold |-> faqThreshold,
     FAQScoreBoost |-> 100,
     FallbackStrategy |-> "fixed", FallbackResponse |-> "canned text",
     ChatResponse |-> [source |-> "", prompt |-> "", text |-> ""]]

DispatchInit ==
    /\ stack = <<>>
    /\ invoked = <<>>
    /\ nextCalled = <<>>
    /\ phase = "ready"
    /\ retval = Nil
    /\ returned = <<>>
    /\ result = Nil
    /\ fetched = <<>>
    /\ fetchFailed = FALSE

\* every pipeline, with one valid and one invalid query
PipeInit ==
    /\ DispatchInit
    /\ StreamIdle
    /\ SvcIdle
    /\ pipeline \in PipelineNames
    /\ \E q \in {<<LetterChar>>, <<XssAtom>>}, mr \in 0..MaxRoundsBound :
          chatManage = NewChatManage(q, mr, TRUE, 50)
    /\ cfgMaxRounds = MaxRoundsBound
    /\ sessionMsgCount \in 0..PipeMsgs

PipeNext ==
    \/ Trigger
    \/ ChatCompletionOnEvent
    \/ ChunkRerankOnEvent
    \/ ChunkMergeOnEvent
    \/ LoadHistoryOnEvent
    \/ IntoChatMessageOnEvent
    \/ OtherPluginOnEvent
    \/ ParallelSearchFork
    \/ ChunkSearchUnit
    \/ EntitySearchUnit
    \/ ParallelSearchJoin
    \/ Return

PipeSpec == PipeInit /\ [][PipeNext]_vars

\* the prompt-assembly stage, over every query
PromptInit ==
    /\ DispatchInit
    /\ StreamIdle
    /\ SvcIdle
    /\ pipeline = "rag"
    /\ \E q \in Queries, f \in BOOLEAN, t \in ThresholdLevels :
          chatManage = [NewChatManage(q, 0, f, t) EXCEPT
                           !.EmbeddingTopK = Len(Candidates),
                           !.RerankThreshold = 0,
                           !.RerankTopK = MaxResults]
    /\ cfgMaxRounds = MaxRoundsBound
    /\ sessionMsgCount = 0

PromptNext ==
    \/ Trigger
    \/ ChatCompletionOnEvent
    \/ ChunkRerankOnEvent
    \/ ChunkMergeOnEvent
    \/ IntoChatMessageOnEvent
    \/ OtherPluginOnEvent
    \/ Return

PromptSpec == PromptInit /\ [][PromptNext]_vars

\* the rerank stage, over every candidate set, threshold and top-K
RerankInit ==
    /\ DispatchInit
    /\ StreamIdle
    /\ SvcIdle
    /\ pipeline = "rag"
    /\ \E t \in RerankThresholds, k \in 0..MaxTopK, f \in BOOLEAN, b \in BoostLevels :
          chatManage = [NewChatManage(<<LetterChar>>, 0, f, 50) EXCEPT
                           !.EmbeddingTopK = Len(Candidates),
                           !.RerankThreshold = t,
                           !.RerankTopK = k,
                           !.FAQScoreBoost = b]
    /\ cfgMaxRounds = MaxRoundsBound
    /\ sessionMsgCount = 0

RerankNext ==
    \/ Trigger
    \/ OtherPluginOnEvent
    \/ ChunkRerankOnEvent
    \/ ChunkMergeOnEvent

RerankSpec == RerankInit /\ [][RerankNext]_vars

\* the completion stage, over every fallback strategy, with and without
\* retrieved context
FallbackInit ==
    /\ DispatchInit
    /\ StreamIdle
    /\ SvcIdle
    /\ pipeline = "rag"
    /\ \E q \in {<<LetterChar>>, <<XssAtom>>}, f \in BOOLEAN,
          fs \in FallbackStrategies, t \in {50, 100} :
          chatManage = [NewChatManage(q, 0, f, 50) EXCEPT
                           !.EmbeddingTopK = Len(Candidates),
                           !.RerankThreshold = t,
                           !.FallbackStrategy = fs]
    /\ cfgMaxRounds = MaxRoundsBound
    /\ sessionMsgCount = 0

FallbackNext ==
    \/ Trigger
    \/ OtherPluginOnEvent
    \/ ChunkRerankOnEvent
    \/ ChunkMergeOnEvent
    \/ IntoChatMessageOnEvent
    \/ ChatCompletionOnEvent
    \/ Return

FallbackSpec == FallbackInit /\ [][FallbackNext]_vars

\* the history-loading stage, over every fetch result
HistInit ==
    /\ DispatchInit
    /\ StreamIdle
    /\ SvcIdle
    /\ pipeline = "chat_history_stream"
    /\ \E mr \in 0..MaxRoundsBound :
          chatManage = NewChatManage(<<LetterChar>>, mr, FALSE, 50)
    /\ cfgMaxRounds \in 0..MaxRoundsBound
    /\ sessionMsgCount \in 0..MaxMsgs

HistNext ==
    \/ Trigger
    \/ LoadHistoryOnEvent

HistSpec == HistInit /\ [][HistNext]_vars

(***************************************************************************)
(* Specification of the streaming chat                                     *)
(***************************************************************************)
StreamInit ==
    /\ StreamIdle
    /\ DispatchInit
    /\ SvcIdle
    /\ pipeline = "chat_stream"
    /\ chatManage = NewChatManage(<<>>, 0, FALSE, 50)
    /\ cfgMaxRounds = 0
    /\ sessionMsgCount = 0

StreamNext ==
    \/ ChatStream
    \/ FeedResponse
    \/ Send
    \/ FeedEnd
    \/ FeedFail
    \/ Cancel
    \/ ConsumerStop

StreamSpec == StreamInit /\ [][StreamNext]_vars

(***************************************************************************)
(* Specification of the web-search state service                           *)
(***************************************************************************)
PipelineIdle ==
    /\ DispatchInit
    /\ pipeline = "chat"
    /\ chatManage = NewChatManage(<<>>, 0, FALSE, 50)
    /\ cfgMaxRounds = 0
    /\ sessionMsgCount = 0

WebInit ==
    /\ CloneIdle
    /\ ToolsIdle
    /\ WebIdle
    /\ ForkIdle
    /\ HashIdle
    /\ ChunkIdle
    /\ PipelineIdle
    /\ StreamIdle

WebNext ==
    \/ \E s \in SessionIDs : WebSearchStage(s)
    \/ \E s \in SessionIDs : RequestEnd(s)
    \/ \E s \in SessionIDs : DeleteWebSearchTempKBState(s)

WebSpec == WebInit /\ [][WebNext]_vars

(***************************************************************************)
(* Specifications of the FAQ content hash and of the chunk setters         *)
(***************************************************************************)
HashInit ==
    /\ CloneIdle
    /\ ToolsIdle
    /\ faqA \in FaqDescriptors
    /\ faqB \in FaqDescriptors
    /\ hashA = Nil
    /\ hashB = Nil
    /\ ChunkIdle
    /\ WebIdle
    /\ ForkIdle
    /\ PipelineIdle
    /\ StreamIdle

HashNext == CalculateHashes

HashSpec == HashInit /\ [][HashNext]_vars

ChunkInit ==
    /\ CloneIdle
    /\ ToolsIdle
    /\ ChunkIdle
    /\ HashIdle
    /\ WebIdle
    /\ ForkIdle
    /\ PipelineIdle
    /\ StreamIdle

ChunkNext ==
    \/ SetFAQMetadata
    \/ SetDocumentMetadata

ChunkSpec == ChunkInit /\ [][ChunkNext]_vars

(***************************************************************************)
(* Specification of ChatManage.Clone                                       *)
(***************************************************************************)
CloneInit ==
    /\ \E query \in {<<>>, <<LetterChar>>}, webSearch \in BOOLEAN,
          messageID \in {"", "m1"},
          kbs \in SliceOptions({<<"kb1">>, <<"kb1", "kb2">>}),
          kids \in SliceOptions({<<"k1">>}),
          hist \in SliceOptions({<<"h1">>}),
          merged \in SliceOptions({<<"c1">>}),
          targets \in SliceOptions({<<"k1">>}) :
          /\ heap = HeapOf(kbs, kids, hist, merged, targets)
          /\ original = ContextOf(query, webSearch, messageID, kbs, kids, hist,
                                  merged, targets)
    /\ clone = Nil
    /\ writes = {}
    /\ ToolsIdle
    /\ ChunkIdle
    /\ HashIdle
    /\ WebIdle
    /\ ForkIdle
    /\ PipelineIdle
    /\ StreamIdle

CloneNext ==
    \/ Clone
    \/ \E who \in {"original", "clone"} : WriteElement(who)
    \/ \E who \in {"original", "clone"} : WriteTarget(who)

CloneSpec == CloneInit /\ [][CloneNext]_vars

\* Init of a tool specification: everything else at rest
OthersIdle ==
    /\ PipelineIdle
    /\ StreamIdle
    /\ WebIdle
    /\ ForkIdle
    /\ HashIdle
    /\ ChunkIdle
    /\ CloneIdle

\* the database query tool, over every query and tenant
DbInit == OthersIdle /\ DbIdle /\ RetryIdle /\ ThinkIdle

DbNext == DatabaseQueryExecute

DbSpec == DbInit /\ [][DbNext]_vars

\* one BatchEmbed call; the goroutine is scheduled and the timer fires
RetryInit == OthersIdle /\ DbIdle /\ RetryIdle /\ ThinkIdle

RetryNext ==
    \/ BatchEmbed
    \/ RetryLoop
    \/ RetryWait
    \/ RetrySend
    \/ BatchEmbedRead
    \/ CancelContext

RetrySpec == RetryInit /\ [][RetryNext]_vars /\ WF_vars(RetryNext)

\* one tool instance, called by one goroutine or by two
ThinkInit ==
    /\ OthersIdle
    /\ DbIdle
    /\ RetryIdle
    /\ callers \in {{1}, CallerIDs}
    /\ thoughtHistory = <<>>
    /\ branches = <<>>
    /\ execPc = [p \in CallerIDs |-> "idle"]
    /\ execLocal = [p \in CallerIDs |-> NoLocal]
    /\ execLog = <<>>

ThinkNext ==
    \/ \E p \in callers : ExecuteStart(p)
    \/ \E p \in callers : ExecuteLoadHistory(p)
    \/ \E p \in callers : ExecuteStoreHistory(p)
    \/ \E p \in callers : ExecuteLoadBranch(p)
    \/ \E p \in callers : ExecuteStoreBranch(p)
    \/ \E p \in callers : ExecuteRespond(p)

ThinkSpec == ThinkInit /\ [][ThinkNext]_vars

(***************************************************************************)
(* Properties of the dispatcher and the plugins                            *)
(***************************************************************************)
HasReturned(s) == \E k \in 1..Len(returned) : returned[k].stage = s

HasRun(s) ==
    /\ \E k \in 1..Len(invoked) : invoked[k] = s
    /\ ~(phase = "running" /\ CurStage = s)

\* a query with a control character, an invalid byte or an XSS pattern
InvalidQueryText(q) == \E i \in 1..Len(q) : q[i] \in {CtrlChar, BadByte, XssAtom}

\* C1: a plugin that returns an error instead of calling next ends the walk:
\* the failing stage is the last stage invoked, it never called next, every
\* frame hands the same error down, and Trigger returns it; the prompt
\* stage does so for an invalid query.
C1_FatalErrorStopsChain ==
    /\ \A k \in 1..Len(returned) :
          returned[k].value # Nil =>
             /\ returned[k].value = returned[1].value
             /\ returned[1].stage = returned[1].value.stage
             /\ invoked[Len(invoked)] = returned[1].stage
             /\ Count(nextCalled, returned[1].stage) = 0
    /\ (phase = "done" /\ returned[1].value # Nil) => result = returned[1].value
    /\ (InvalidQueryText(chatManage.Query) /\ HasReturned(INTO_CHAT_MESSAGE)) =>
          returned[1] = [stage |-> INTO_CHAT_MESSAGE, value |-> ErrTemplateExecute]

C1_Witness ==
    /\ pipeline = "rag_stream"
    /\ phase = "done"
    /\ result = ErrTemplateExecute
    /\ invoked[Len(invoked)] = INTO_CHAT_MESSAGE

\* C2: the stages invoked so far are a prefix of the pipeline's stage list
\* (definition order, each at most once), a stage is invoked only after
\* its predecessor called next, and while a stage runs every earlier
\* active stage is suspended inside its call of next.
C2_StagesRunInDefinitionOrder ==
    /\ IsPrefix(invoked, Pipline[pipeline])
    /\ \A k \in 1..Len(invoked) : Count(invoked, invoked[k]) = 1
    /\ IsPrefix(nextCalled, invoked)
    /\ Len(invoked) <= Len(nextCalled) + 1
    /\ phase = "running" =>
          /\ stack[Len(stack)] = Len(invoked)
          /\ \A d \in 1..(Len(stack) - 1) : Count(nextCalled, Stages[stack[d]]) = 1

C2_Witness ==
    /\ pipeline = "rag_stream"
    /\ phase = "done"
    /\ result = Nil
    /\ invoked = Pipline["rag_stream"]
    /\ nextCalled = invoked

\* C3: once the prompt stage has run on an invalid query it has returned
\* the content-safety error without calling next and without writing the
\* prompt; on a valid query the text substituted for the query is the
\* validated (trimmed) query.
C3_InvalidQueryAbortsChain ==
    HasRun(INTO_CHAT_MESSAGE) =>
        IF InvalidQueryText(chatManage.Query)
        THEN /\ chatManage.UserContent = <<>>
             /\ Count(nextCalled, INTO_CHAT_MESSAGE) = 0
             /\ invoked[Len(invoked)] = INTO_CHAT_MESSAGE
             /\ (IF phase = "done" THEN result ELSE retval) = ErrTemplateExecute
        ELSE /\ chatManage.UserContent # <<>>
             /\ Count(nextCalled, INTO_CHAT_MESSAGE) = 1
             /\ \A i \in 1..Len(chatManage.UserContent) :
                   chatManage.UserContent[i].part = "query" =>
                      chatManage.UserContent[i].text = TrimSpace(chatManage.Query)

C3_Witness ==
    /\ phase = "done"
    /\ chatManage.Query = <<LetterChar, XssAtom>>
    /\ result = ErrTemplateExecute
    /\ chatManage.UserContent = <<>>

\* C4: after a failed history fetch the history is still empty, load_history
\* has called next (the following stage is invoked), and load_history
\* returns what next returned.
C4_HistoryFetchFailureIsNotFatal ==
    fetchFailed =>
        /\ chatManage.History = <<>>
        /\ Count(nextCalled, LOAD_HISTORY) = 1
        /\ Len(invoked) >= 2
        /\ invoked[2] = CHAT_COMPLETION_STREAM
        /\ \A k \in 1..Len(returned) :
              returned[k].stage = LOAD_HISTORY =>
                 /\ k > 1
                 /\ returned[k].value = returned[k - 1].value
        /\ phase = "done" => result = returned[Len(returned)].value

C4_Witness ==
    /\ fetchFailed
    /\ phase = "done"
    /\ result = Nil
    /\ invoked = Pipline["chat_history_stream"]

(***************************************************************************)
(* Properties of history loading                                           *)
(***************************************************************************)
\* the request's value when it is greater than zero, else the configured default
RequestedOrDefaultRounds ==
    IF chatManage.MaxRounds > 0 THEN chatManage.MaxRounds ELSE cfgMaxRounds

FetchedCompleteTurns == CompleteKeys(GroupByRequest(fetched, EmptyMap))

\* C5: the history never holds more than max_rounds turns.
C5_HistoryAtMostMaxRounds ==
    Len(chatManage.History) <= RequestedOrDefaultRounds

C5_Witness ==
    /\ Count(nextCalled, LOAD_HISTORY) = 1
    /\ RequestedOrDefaultRounds = 1
    /\ Cardinality(FetchedCompleteTurns) = 2
    /\ Len(chatManage.History) = 1

\* C6: the turns of the history are in chronological order, oldest first.
C6_HistoryOldestFirst ==
    \A i, j \in 1..Len(chatManage.History) :
        i < j => chatManage.History[i].CreateAt <= chatManage.History[j].CreateAt

C6_Witness ==
    /\ Len(chatManage.History) = 2
    /\ chatManage.History[1].CreateAt < chatManage.History[2].CreateAt
    /\ \E i, j \in 1..Len(fetched) :
          /\ i < j
          /\ fetched[i].Role = "user"
          /\ fetched[j].Role = "user"
          /\ fetched[i].CreatedAt > fetched[j].CreatedAt

(***************************************************************************)
(* Properties of the streaming chat                                        *)
(***************************************************************************)
IsDelta(e) ==
    ~e.Done /\ e.ResponseType \in {ResponseTypeAnswer, ResponseTypeToolCall}

RECURSIVE GeneratedEvents(_)
\* the events of the responses the model generated, in generation order
GeneratedEvents(resps) ==
    IF resps = <<>> THEN <<>>
    ELSE CallbackSends(Head(resps)) \o GeneratedEvents(Tail(resps))

\* the received events that came from the model (not the error report)
ModelEvents(evs) == SelectSeq(evs, LAMBDA e : e.ResponseType # ResponseTypeError)

C9_DeliveredInGenerationOrder ==
    /\ prodPc = "sending" => ModelEvents(received) \o cur = GeneratedEvents(produced)
    /\ prodPc \in {"inChat", "failing", "closed"} =>
          ModelEvents(received) = GeneratedEvents(produced)
    /\ \A i \in 1..Len(received) :
          received[i].ResponseType = ResponseTypeError => i = Len(received)

C9_Witness ==
    /\ prodPc = "closed"
    /\ Len(produced) = 2
    /\ Len(received) >= 3
    /\ received[1] = AnswerEvent(produced[1])
    /\ received[2] = AnswerEvent(produced[2])

\* C10: after a cancellation the producer is never left blocked on a send
\* to a consumer that has stopped reading (from such a state it can never
\* terminate or close the stream).
C10_CancelledProducerNeverStuck ==
    cancelled => ~(prodPc \in SendingPcs /\ consumer = "stopped")

\* the most sends one callback invocation performs (answer, tool call, done)
MaxBacklog == Len(CallbackSends([Content |-> 1, ToolCalls |-> 1, Done |-> TRUE]))

\* the goroutine has reached the error branch after ollamaService.Chat
StreamFailed ==
    \/ prodPc = "failing"
    \/ received # <<>> /\ received[Len(received)].ResponseType = ResponseTypeError

\* every event the goroutine has generated so far, in program order
EmittedEvents ==
    GeneratedEvents(produced) \o (IF StreamFailed THEN <<ErrorEvent>> ELSE <<>>)

\* C11: no event is dropped and the backlog is bounded: the events received
\* are exactly the first events generated, the generated events not yet
\* received never number more than the sends of one callback, and when the
\* stream is closed every generated event has been received.
C11_BacklogBoundedNoDrop ==
    /\ IsPrefix(received, EmittedEvents)
    /\ Len(EmittedEvents) - Len(received) <= MaxBacklog
    /\ prodPc = "closed" => received = EmittedEvents

C11_Witness ==
    /\ prodPc = "sending"
    /\ Len(produced) = MaxResponses
    /\ Len(EmittedEvents) - Len(received) = MaxBacklog
    /\ received # <<>>

(***************************************************************************)
(* Properties of the web-search state service                              *)
(***************************************************************************)
RequestEnded == {"completed", "failed", "cancelled"}

\* C12: after a delete that found the state stored for a session whose request
\* has ended (a temporary knowledge base and its knowledge ids) and returned
\* nil, the knowledge items, the knowledge base and the stored state are all
\* gone.
C12_LaterDeleteRemovesEverything ==
    (/\ lastDelete # Nil
     /\ request[lastDelete.session] \in RequestEnded
     /\ lastDelete.ret = "nil"
     /\ lastDelete.found # Nil
     /\ TrimSpace(lastDelete.found.KBID) # <<>>)
    => /\ redisStore[StateKey(lastDelete.session)] = Nil
       /\ lastDelete.found.KBID \notin knowledgeBases
       /\ Range(lastDelete.found.KnowledgeIDs) \cap knowledgeItems = {}

(***************************************************************************)
(* Properties of the parallel search coordinator                           *)
(***************************************************************************)
\* C13: the stage after the parallel search is invoked, and the plugin calls
\* next, only when both the chunk search unit and the entity search unit
\* have finished; until then the chain stays in the parallel-search stage.
C13_NextStageAfterBothUnits ==
    /\ \A i \in 1..Len(invoked) :
          (i > 1 /\ invoked[i - 1] = CHUNK_SEARCH_PARALLEL)
          => chunkUnit \in UnitFinished /\ entityUnit \in UnitFinished
    /\ (\E i \in 1..Len(nextCalled) : nextCalled[i] = CHUNK_SEARCH_PARALLEL)
          => chunkUnit = "done" /\ entityUnit \in UnitFinished
    /\ ("running" \in {chunkUnit, entityUnit} /\ phase = "running")
          => CurStage = CHUNK_SEARCH_PARALLEL

C13_Witness ==
    /\ HasRun(CHUNK_RERANK)
    /\ chunkUnit = "done"
    /\ entityUnit = "failed"
    /\ chatManage.SearchResult # <<>>
    /\ chatManage.GraphResult = <<>>

(***************************************************************************)
(* Properties of the prompt assembly                                       *)
(***************************************************************************)
\* the text substituted for {{contexts}} in the assembled prompt
PromptContexts ==
    IF \E i \in 1..Len(chatManage.UserContent) :
          chatManage.UserContent[i].part = "contexts"
    THEN chatManage.UserContent[CHOOSE i \in 1..Len(chatManage.UserContent) :
                                   chatManage.UserContent[i].part = "contexts"].text
    ELSE <<>>

HasLabel(l) == \E k \in 1..Len(PromptContexts) : PromptContexts[k].label = l

FaqCount == Len(SelectSeq(chatManage.MergeResult, IsFAQ))

C15_TwoSectionsWheneverEnabled ==
    (/\ chatManage.UserContent # <<>>
     /\ chatManage.FAQPriorityEnabled
     /\ chatManage.MergeResult # <<>>)
    => /\ ~HasLabel("flat")
       /\ \E i, j \in 1..Len(PromptContexts) :
             /\ i < j
             /\ PromptContexts[i].label = "FAQ-header"
             /\ PromptContexts[j].label = "DOC-header"

\* C15: when FAQ-priority is enabled and some result is an FAQ, the contexts
\* are the FAQ section (header, then the FAQ results numbered from 1)
\* followed, when there is a non-FAQ result, by the reference-documents
\* section (header, then those results numbered from 1); otherwise the
\* contexts are the flat numbered list of all results.
C15_SectionsWhenFAQPresent ==
    chatManage.UserContent # <<>> =>
        LET c == PromptContexts
            nf == FaqCount
            nd == Len(chatManage.MergeResult) - FaqCount
        IN IF chatManage.FAQPriorityEnabled /\ nf > 0
           THEN /\ Len(c) = nf + 1 + (IF nd > 0 THEN nd + 1 ELSE 0)
                /\ c[1].label = "FAQ-header"
                /\ \A k \in 2..(nf + 1) :
                      c[k].label \in {"FAQ", "FAQ-exact"} /\ c[k].n = k - 1
                /\ nd > 0 =>
                      /\ c[nf + 2].label = "DOC-header"
                      /\ \A k \in (nf + 3)..Len(c) :
                            c[k].label = "DOC" /\ c[k].n = k - nf - 2
           ELSE /\ Len(c) = Len(chatManage.MergeResult)
                /\ \A k \in 1..Len(c) :
                      /\ c[k].label = "flat"
                      /\ c[k].n = k
                      /\ c[k].id = chatManage.MergeResult[k].ID

C15_Witness ==
    /\ chatManage.UserContent # <<>>
    /\ chatManage.FAQPriorityEnabled
    /\ Len(chatManage.MergeResult) = 2
    /\ chatManage.MergeResult[1].ChunkType = ChunkTypeText
    /\ chatManage.MergeResult[2].ChunkType = ChunkTypeFAQ
    /\ Len(PromptContexts) = 4
    /\ PromptContexts[1].label = "FAQ-header"
    /\ PromptContexts[2].id = chatManage.MergeResult[2].ID
    /\ PromptContexts[3].label = "DOC-header"
    /\ PromptContexts[4].id = chatManage.MergeResult[1].ID

(***************************************************************************)
(* Properties of the FAQ content hash                                      *)
(***************************************************************************)
\* the set a list of strings stands for: its trimmed, non-empty items
StringSet(list) == {TrimSpace(list[i]) : i \in DOMAIN list} \ {<<>>}

SameContent(a, b) ==
    /\ TrimSpace(a.StandardQuestion) = TrimSpace(b.StandardQuestion)
    /\ StringSet(a.SimilarQuestions) = StringSet(b.SimilarQuestions)
    /\ StringSet(a.NegativeQuestions) = StringSet(b.NegativeQuestions)
    /\ StringSet(a.Answers) = StringSet(b.Answers)

\* C16: two descriptors with the same standard question and the same sets of
\* similar questions, negative questions and answers (whatever the order,
\* the surrounding whitespace and the repetitions) have the same hash.
C16_SameContentSameHash ==
    (hashA # Nil /\ SameContent(faqA, faqB)) => hashA = hashB

C16_Witness ==
    /\ hashA # Nil
    /\ hashA = hashB
    /\ faqA.Answers = <<<<LetterChar>>, <<LetterB>>>>
    /\ faqB.Answers = <<<<LetterB>>, <<SpaceChar, LetterChar>>>>
    /\ faqA.SimilarQuestions # faqB.SimilarQuestions
    /\ faqA.StandardQuestion # faqB.StandardQuestion

\* C17: two descriptors whose answer sets differ have different hashes.
C17_DifferentAnswersDifferentHash ==
    (hashA # Nil /\ StringSet(faqA.Answers) # StringSet(faqB.Answers))
    => hashA # hashB

\* C18: right after SetFAQMetadata the stored hash is the content hash of the
\* metadata stored on the chunk, and both are empty when it was cleared.
C18_StoredHashMatchesStoredMetadata ==
    lastOp = "SetFAQMetadata" =>
        chunk.ContentHash = CalculateFAQContentHash(FAQMetadata(chunk))

(***************************************************************************)
(* Properties of ChatManage.Clone                                          *)
(***************************************************************************)
\* C19: the context returned by Clone has, before any later write, the same
\* value as the original in every field, and no address is reachable from
\* both contexts.
C19_CloneIsDeepCopy ==
    clone # Nil =>
        /\ writes = {} => DeepValue(heap, clone) = DeepValue(heap, original)
        /\ Addrs(heap, clone) \cap Addrs(heap, original) = {}

(***************************************************************************)
(* Properties of the rerank stage                                          *)
(***************************************************************************)
\* C20: whatever the threshold, the candidates and their rerank scores, the
\* stored rerank result holds no result scored below the threshold, holds at
\* most RerankTopK results, is sorted by descending score, and holds only
\* candidates of the search result.
C20_RerankFilteredTruncatedSorted ==
    LET rr == chatManage.RerankResult
    IN /\ \A i \in 1..Len(rr) : rr[i].Score >= chatManage.RerankThreshold
       /\ Len(rr) <= chatManage.RerankTopK
       /\ \A i, j \in 1..Len(rr) : i < j => rr[i].Score >= rr[j].Score
       /\ \A i \in 1..Len(rr) :
             \E j \in 1..Len(chatManage.SearchResult) :
                chatManage.SearchResult[j].ID = rr[i].ID

C20_Witness ==
    /\ HasRun(CHUNK_RERANK)
    /\ chatManage.RerankThreshold = 50
    /\ chatManage.RerankTopK = 1
    /\ Len(chatManage.SearchResult) = 3
    /\ Len(chatManage.RerankResult) = 1
    /\ chatManage.RerankResult[1].ID = "c2"
    /\ chatManage.RerankResult[1].Score = 90

MergedEmpty ==
    /\ phase = "done"
    /\ Count(nextCalled, CHUNK_MERGE) = 1
    /\ chatManage.MergeResult = <<>>

\* the response the configured strategy asks for
ConsistentWithStrategy ==
    LET r == chatManage.ChatResponse
    IN /\ chatManage.FallbackStrategy = "fixed" =>
             r = [source |-> "canned", prompt |-> "none",
                  text |-> chatManage.FallbackResponse]
       /\ chatManage.FallbackStrategy = "model" =>
             r.source = "model" /\ r.prompt = "fallback_prompt"
       /\ chatManage.FallbackStrategy = "unconstrained" =>
             r.source = "model" /\ r.prompt = "query_only"

C23_AcceptedQueriesAreTenantFiltered ==
    (dbCall # Nil /\ dbCall.out.err = "") =>
        LET secured == dbCall.out.secured
        IN /\ \A i \in 1..Len(secured.from) :
                 \E k \in 1..Len(secured.where) :
                    /\ secured.where[k].kind = "tenant"
                    /\ [alias |-> AliasOf(secured.from[i]), tenant |-> dbCall.tenant]
                          \in secured.where[k].conds
           /\ ~ReturnsForeignRow(secured, dbCall.tenant)

(***************************************************************************)
(* Properties of the embedders' retry loop                                 *)
(***************************************************************************)
\* C24 as stated: doRequestWithRetry never returns a nil response together
\* with a nil error, and BatchEmbed never reads the body of a missing
\* response.
C24_FailedRetriesReturnError ==
    /\ retryRet # Nil => ~(retryRet.resp = NilResponse /\ retryRet.err = NoError)
    /\ retryPc # "nil pointer dereference"

LastIndex(rid, role) ==
    LET hits == {i \in 1..Len(fetched) :
                    fetched[i].RequestID = rid /\ fetched[i].Role = role}
    IN IF hits = {} THEN 0 ELSE CHOOSE i \in hits : \A j \in hits : j <= i

\* the turn of a request id: its last query with its time, and its last
\* answer without the thinking block
TurnOf(rid) ==
    LET u == LastIndex(rid, "user")
        a == LastIndex(rid, "assistant")
    IN [Query |-> IF u = 0 THEN <<>> ELSE fetched[u].Content,
        Answer |-> IF a = 0 THEN <<>> ELSE StripThink(fetched[a].Content),
        CreateAt |-> IF u = 0 THEN 0 ELSE fetched[u].CreatedAt]

\* request ids for which a non-empty query and a non-empty answer were fetched
FetchedBothIDs ==
    {rid \in RequestIDs :
        /\ \E i \in 1..Len(fetched) :
              /\ fetched[i].RequestID = rid /\ fetched[i].Role = "user"
              /\ fetched[i].Content # <<>>
        /\ \E i \in 1..Len(fetched) :
              /\ fetched[i].RequestID = rid /\ fetched[i].Role = "assistant"
              /\ fetched[i].Content # <<>>}

\* request ids whose turn has a query and an answer left after the thinking
\* block is removed
VisibleTurnIDs ==
    {rid \in RequestIDs : TurnOf(rid).Query # <<>> /\ TurnOf(rid).Answer # <<>>}

\* the history is the most recent turns of ids, up to max_rounds of them
MostRecentTurnsOf(ids) ==
    LET h == chatManage.History
    IN /\ Len(h) = Min(RequestedOrDefaultRounds, Cardinality(ids))
       /\ \E f \in [1..Len(h) -> ids] :
             /\ \A i, j \in 1..Len(h) : f[i] = f[j] => i = j
             /\ \A i \in 1..Len(h) : h[i] = TurnOf(f[i])
             /\ \A rid \in ids \ {f[i] : i \in 1..Len(h)} :
                   \A i \in 1..Len(h) : TurnOf(rid).CreateAt <= h[i].CreateAt

HistoryLoaded == Count(nextCalled, LOAD_HISTORY) = 1 /\ ~fetchFailed

\* C26 as stated: the loaded history is the most recent turns, up to
\* max_rounds, among the request ids for which a non-empty query and a
\* non-empty answer were fetched.
C26_MostRecentFetchedTurns ==
    HistoryLoaded => MostRecentTurnsOf(FetchedBothIDs)

\* C26: the loaded history is the most recent complete turns, up to
\* max_rounds, where a turn is complete when its request id has a non-empty
\* query and an answer that is non-empty after the thinking block is removed;
\* no other turn is included and no older complete turn is kept in place of
\* a newer one.
C26_MostRecentCompleteTurns ==
    HistoryLoaded => MostRecentTurnsOf(VisibleTurnIDs)

C26_Witness ==
    /\ HistoryLoaded
    /\ RequestedOrDefaultRounds = 1
    /\ VisibleTurnIDs = RequestIDs
    /\ TurnOf("r1").CreateAt > TurnOf("r2").CreateAt
    /\ chatManage.History = <<TurnOf("r1")>>


(***************************************************************************)
(* C27: whenever DeleteWebSearchTempKBState returns nil for a session, no  *)
(* temporary-KB state remains stored for that session: a                   *)
(* GetWebSearchTempKBState that follows it returns an empty KB id, an      *)
(* empty URL set and no knowledge ids, and a second delete finds nothing.  *)
(***************************************************************************)
EmptyTempKBState == [tempKBID |-> <<>>, seenURLs |-> {}, knowledgeIDs |-> <<>>]

DeleteReturnedNil(sessionID) ==
    /\ DeleteWebSearchTempKBState(sessionID)
    /\ lastDelete'.ret = "nil"

C27_NilDeleteLeavesNoState ==
    [][\A s \in SessionIDs :
          DeleteReturnedNil(s) =>
              /\ redisStore'[StateKey(s)] = Nil
              /\ LET raw == redisStore'[StateKey(s)]
                 IN (IF raw # Nil
                     THEN [tempKBID |-> UnmarshalState(raw).KBID,
                           seenURLs |-> UnmarshalState(raw).SeenURLs,
                           knowledgeIDs |-> UnmarshalState(raw).KnowledgeIDs]
                     ELSE EmptyTempKBState) = EmptyTempKBState]_vars


(***************************************************************************)
(* Properties of the sequential-thinking tool                              *)
(***************************************************************************)
\* the number of successful calls among the first k that returned
Successes(k) == Cardinality({j \in 1..k : execLog[j].ok})

\* calls that have appended their thought and have not returned yet
Appended == {p \in callers : execPc[p] \in {"branch_load", "branch_store", "respond"}}

FailedCallReturns ==
    /\ Len(execLog') = Len(execLog) + 1
    /\ ~execLog'[Len(execLog')].ok

SequentialCalls == Cardinality(callers) = 1

(***************************************************************************)
(* C28: with calls made one after another the thought history is           *)
(* append-only: every successful Execute appends exactly one entry, the    *)
(* thought_history_length it reports is the number of successful calls so  *)
(* far, and an Execute that fails parsing or validation leaves the         *)
(* history and the branches as they were.                                  *)
(***************************************************************************)
C28_HistoryAppendOnly ==
    /\ [](SequentialCalls =>
            /\ Len(thoughtHistory) = Successes(Len(execLog)) + Cardinality(Appended)
            /\ \A k \in 1..Len(execLog) :
                  execLog[k].ok => execLog[k].thought_history_length = Successes(k))
    /\ [][SequentialCalls =>
            /\ IsPrefix(thoughtHistory, thoughtHistory')
            /\ Len(thoughtHistory') <= Len(thoughtHistory) + 1
            /\ FailedCallReturns => UNCHANGED <<thoughtHistory, branches>>]_vars

\* a failed call, then two successful ones that report lengths 1 and 2
C28_Witness ==
    /\ SequentialCalls
    /\ Len(execLog) = 3
    /\ ~execLog[1].ok /\ execLog[2].ok /\ execLog[3].ok
    /\ execLog[2].thought_history_length = 1
    /\ execLog[3].thought_history_length = 2
    /\ Len(thoughtHistory) = 2

(***************************************************************************)
(* C29: with concurrent calls on one tool no recorded thought is lost:     *)
(* once n successful calls have returned the history has n entries, each   *)
(* branch holds every thought recorded for it, and the calls reported      *)
(* distinct thought_history_length values.                                 *)
(***************************************************************************)
RecordedFor(id) ==
    {k \in 1..Len(execLog) :
        /\ execLog[k].ok
        /\ Unmarshal(execLog[k].args).input.BranchFromThought # 0
        /\ Unmarshal(execLog[k].args).input.BranchID = id}

C29_NoThoughtLostUnderConcurrency ==
    (\A p \in callers : execPc[p] = "idle") =>
        /\ Len(thoughtHistory) = Successes(Len(execLog))
        /\ \A id \in {"b1"} :
              Cardinality(RecordedFor(id)) =
                  IF id \in DOMAIN branches THEN Len(branches[id]) ELSE 0
        /\ \A j, k \in 1..Len(execLog) :
              (j # k /\ execLog[j].ok /\ execLog[k].ok)
                  => execLog[j].thought_history_length # execLog[k].thought_history_length

(***************************************************************************)
(* C30: every argument object that satisfies the published schema, with a  *)
(* non-empty thought, is accepted and recorded, and the response reports   *)
(* the thought number, total thoughts and next-thought-needed supplied.    *)
(***************************************************************************)
C30_SchemaArgsAccepted ==
    \A k \in 1..Len(execLog) :
        LET args == execLog[k].args
        IN (SatisfiesSchema(args) /\ args["thought"].s # "") =>
              /\ execLog[k].ok
              /\ execLog[k].thought_number = args["thoughtNumber"].n
              /\ execLog[k].total_thoughts = args["totalThoughts"].n
              /\ execLog[k].next_thought_needed = args["nextThoughtNeeded"].b

====
